---------------------------- MODULE Spec2Model ----------------------------
(***************************************************************************)
(* A model of the SES e-mail forwarder Lambda (src/unnamed/part_001):      *)
(* the handler pipeline parseEvent -> sendDiscordMessage ->                *)
(* transformRecipients -> filterSpam -> fetchMessage -> processMessage ->  *)
(* sendMessage, and the two pure functions transformRecipients and         *)
(* processMessage.                                                         *)
(*                                                                         *)
(* JavaScript strings are modelled as sequences of one-character strings,  *)
(* so that toLowerCase, replace, split, slice and the regular expressions  *)
(* of the source are computed character by character.                      *)
(***************************************************************************)
EXTENDS Integers, Sequences, FiniteSets, TLC

VARIABLES
    cfg,        \* CONFIG: the merged forwarder configuration (read-only)
    env,        \* process.env
    event,      \* the SESEvent handed to the handler
    pc,         \* the handler's position
    calls,      \* the I/O requests issued so far, in order, each with its result
    stages,     \* the pipeline stages entered so far, in order
    logs,       \* the log entries written so far, in order
    outcome,    \* how the invocation ended ("running" until it does)
    thrown,     \* the value the handler's catch block received, if any
    message,    \* the SESMessage parseEvent returned
    result,     \* the RecipientsResult of transformRecipients
    stream,     \* the Body stream of the fetched object while it is read
    messageBody,        \* what fetchMessage returned
    updatedMessageBody, \* what processMessage returned
    args,       \* pure-function harness: the arguments of the call
    ret         \* pure-function harness: the returned value

hvars == <<cfg, env, event, pc, calls, stages, logs, outcome, thrown, message,
           result, stream, messageBody, updatedMessageBody>>
vars == <<cfg, env, event, pc, calls, stages, logs, outcome, thrown, message,
          result, stream, messageBody, updatedMessageBody, args, ret>>

\* null: no string (no character is "null")
NULL == <<"null">>

-----------------------------------------------------------------------------
(* Strings as sequences of characters.                                     *)

\* A character is a UTF-16 code unit: a one-character TLA+ string when it
\* belongs to Latin-1, and the string "U+" followed by its four hexadecimal
\* digits otherwise (a character beyond the Basic Multilingual Plane is a
\* pair of surrogates); the grave accent, which a TLA+ string cannot hold, is
\* "U+0060".

\* the letters of Latin-1 that toLowerCase changes, and what it makes of them
UpperChars == <<"A","B","C","D","E","F","G","H","I","J","K","L","M",
                "N","O","P","Q","R","S","T","U","V","W","X","Y","Z",
                "À","Á","Â","Ã","Ä","Å","Æ","Ç","È","É","Ê","Ë","Ì",
                "Í","Î","Ï","Ð","Ñ","Ò","Ó","Ô","Õ","Ö","Ø","Ù","Ú",
                "Û","Ü","Ý","Þ">>
LowerChars == <<"a","b","c","d","e","f","g","h","i","j","k","l","m",
                "n","o","p","q","r","s","t","u","v","w","x","y","z",
                "à","á","â","ã","ä","å","æ","ç","è","é","ê","ë","ì",
                "í","î","ï","ð","ñ","ò","ó","ô","õ","ö","ø","ù","ú",
                "û","ü","ý","þ">>

\* the letters of the Basic Multilingual Plane beyond Latin-1 that
\* toLowerCase changes into one other character (Unicode 17), and what it
\* makes of them; U+03A3 is given its form that does not end a word
UpperBeyond ==
    <<"U+0100", "U+0102", "U+0104", "U+0106", "U+0108", "U+010A", "U+010C",
      "U+010E", "U+0110", "U+0112", "U+0114", "U+0116", "U+0118", "U+011A",
      "U+011C", "U+011E", "U+0120", "U+0122", "U+0124", "U+0126", "U+0128",
      "U+012A", "U+012C", "U+012E", "U+0132", "U+0134", "U+0136", "U+0139",
      "U+013B", "U+013D", "U+013F", "U+0141", "U+0143", "U+0145", "U+0147",
      "U+014A", "U+014C", "U+014E", "U+0150", "U+0152", "U+0154", "U+0156",
      "U+0158", "U+015A", "U+015C", "U+015E", "U+0160", "U+0162", "U+0164",
      "U+0166", "U+0168", "U+016A", "U+016C", "U+016E", "U+0170", "U+0172",
      "U+0174", "U+0176", "U+0178", "U+0179", "U+017B", "U+017D", "U+0181",
      "U+0182", "U+0184", "U+0186", "U+0187", "U+0189", "U+018A", "U+018B",
      "U+018E", "U+018F", "U+0190", "U+0191", "U+0193", "U+0194", "U+0196",
      "U+0197", "U+0198", "U+019C", "U+019D", "U+019F", "U+01A0", "U+01A2",
      "U+01A4", "U+01A6", "U+01A7", "U+01A9", "U+01AC", "U+01AE", "U+01AF",
      "U+01B1", "U+01B2", "U+01B3", "U+01B5", "U+01B7", "U+01B8", "U+01BC",
      "U+01C4", "U+01C5", "U+01C7", "U+01C8", "U+01CA", "U+01CB", "U+01CD",
      "U+01CF", "U+01D1", "U+01D3", "U+01D5", "U+01D7", "U+01D9", "U+01DB",
      "U+01DE", "U+01E0", "U+01E2", "U+01E4", "U+01E6", "U+01E8", "U+01EA",
      "U+01EC", "U+01EE", "U+01F1", "U+01F2", "U+01F4", "U+01F6", "U+01F7",
      "U+01F8", "U+01FA", "U+01FC", "U+01FE", "U+0200", "U+0202", "U+0204",
      "U+0206", "U+0208", "U+020A", "U+020C", "U+020E", "U+0210", "U+0212",
      "U+0214", "U+0216", "U+0218", "U+021A", "U+021C", "U+021E", "U+0220",
      "U+0222", "U+0224", "U+0226", "U+0228", "U+022A", "U+022C", "U+022E",
      "U+0230", "U+0232", "U+023A", "U+023B", "U+023D", "U+023E", "U+0241",
      "U+0243", "U+0244", "U+0245", "U+0246", "U+0248", "U+024A", "U+024C",
      "U+024E", "U+0370", "U+0372", "U+0376", "U+037F", "U+0386", "U+0388",
      "U+0389", "U+038A", "U+038C", "U+038E", "U+038F", "U+0391", "U+0392",
      "U+0393", "U+0394", "U+0395", "U+0396", "U+0397", "U+0398", "U+0399",
      "U+039A", "U+039B", "U+039C", "U+039D", "U+039E", "U+039F", "U+03A0",
      "U+03A1", "U+03A3", "U+03A4", "U+03A5", "U+03A6", "U+03A7", "U+03A8",
      "U+03A9", "U+03AA", "U+03AB", "U+03CF", "U+03D8", "U+03DA", "U+03DC",
      "U+03DE", "U+03E0", "U+03E2", "U+03E4", "U+03E6", "U+03E8", "U+03EA",
      "U+03EC", "U+03EE", "U+03F4", "U+03F7", "U+03F9", "U+03FA", "U+03FD",
      "U+03FE", "U+03FF", "U+0400", "U+0401", "U+0402", "U+0403", "U+0404",
      "U+0405", "U+0406", "U+0407", "U+0408", "U+0409", "U+040A", "U+040B",
      "U+040C", "U+040D", "U+040E", "U+040F", "U+0410", "U+0411", "U+0412",
      "U+0413", "U+0414", "U+0415", "U+0416", "U+0417", "U+0418", "U+0419",
      "U+041A", "U+041B", "U+041C", "U+041D", "U+041E", "U+041F", "U+0420",
      "U+0421", "U+0422", "U+0423", "U+0424", "U+0425", "U+0426", "U+0427",
      "U+0428", "U+0429", "U+042A", "U+042B", "U+042C", "U+042D", "U+042E",
      "U+042F", "U+0460", "U+0462", "U+0464", "U+0466", "U+0468", "U+046A",
      "U+046C", "U+046E", "U+0470", "U+0472", "U+0474", "U+0476", "U+0478",
      "U+047A", "U+047C", "U+047E", "U+0480", "U+048A", "U+048C", "U+048E",
      "U+0490", "U+0492", "U+0494", "U+0496", "U+0498", "U+049A", "U+049C",
      "U+049E", "U+04A0", "U+04A2", "U+04A4", "U+04A6", "U+04A8", "U+04AA",
      "U+04AC", "U+04AE", "U+04B0", "U+04B2", "U+04B4", "U+04B6", "U+04B8",
      "U+04BA", "U+04BC", "U+04BE", "U+04C0", "U+04C1", "U+04C3", "U+04C5",
      "U+04C7", "U+04C9", "U+04CB", "U+04CD", "U+04D0", "U+04D2", "U+04D4",
      "U+04D6", "U+04D8", "U+04DA", "U+04DC", "U+04DE", "U+04E0", "U+04E2",
      "U+04E4", "U+04E6", "U+04E8", "U+04EA", "U+04EC", "U+04EE", "U+04F0",
      "U+04F2", "U+04F4", "U+04F6", "U+04F8", "U+04FA", "U+04FC", "U+04FE",
      "U+0500", "U+0502", "U+0504", "U+0506", "U+0508", "U+050A", "U+050C",
      "U+050E", "U+0510", "U+0512", "U+0514", "U+0516", "U+0518", "U+051A",
      "U+051C", "U+051E", "U+0520", "U+0522", "U+0524", "U+0526", "U+0528",
      "U+052A", "U+052C", "U+052E", "U+0531", "U+0532", "U+0533", "U+0534",
      "U+0535", "U+0536", "U+0537", "U+0538", "U+0539", "U+053A", "U+053B",
      "U+053C", "U+053D", "U+053E", "U+053F", "U+0540", "U+0541", "U+0542",
      "U+0543", "U+0544", "U+0545", "U+0546", "U+0547", "U+0548", "U+0549",
      "U+054A", "U+054B", "U+054C", "U+054D", "U+054E", "U+054F", "U+0550",
      "U+0551", "U+0552", "U+0553", "U+0554", "U+0555", "U+0556", "U+10A0",
      "U+10A1", "U+10A2", "U+10A3", "U+10A4", "U+10A5", "U+10A6", "U+10A7",
      "U+10A8", "U+10A9", "U+10AA", "U+10AB", "U+10AC", "U+10AD", "U+10AE",
      "U+10AF", "U+10B0", "U+10B1", "U+10B2", "U+10B3", "U+10B4", "U+10B5",
      "U+10B6", "U+10B7", "U+10B8", "U+10B9", "U+10BA", "U+10BB", "U+10BC",
      "U+10BD", "U+10BE", "U+10BF", "U+10C0", "U+10C1", "U+10C2", "U+10C3",
      "U+10C4", "U+10C5", "U+10C7", "U+10CD", "U+13A0", "U+13A1", "U+13A2",
      "U+13A3", "U+13A4", "U+13A5", "U+13A6", "U+13A7", "U+13A8", "U+13A9",
      "U+13AA", "U+13AB", "U+13AC", "U+13AD", "U+13AE", "U+13AF", "U+13B0",
      "U+13B1", "U+13B2", "U+13B3", "U+13B4", "U+13B5", "U+13B6", "U+13B7",
      "U+13B8", "U+13B9", "U+13BA", "U+13BB", "U+13BC", "U+13BD", "U+13BE",
      "U+13BF", "U+13C0", "U+13C1", "U+13C2", "U+13C3", "U+13C4", "U+13C5",
      "U+13C6", "U+13C7", "U+13C8", "U+13C9", "U+13CA", "U+13CB", "U+13CC",
      "U+13CD", "U+13CE", "U+13CF", "U+13D0", "U+13D1", "U+13D2", "U+13D3",
      "U+13D4", "U+13D5", "U+13D6", "U+13D7", "U+13D8", "U+13D9", "U+13DA",
      "U+13DB", "U+13DC", "U+13DD", "U+13DE", "U+13DF", "U+13E0", "U+13E1",
      "U+13E2", "U+13E3", "U+13E4", "U+13E5", "U+13E6", "U+13E7", "U+13E8",
      "U+13E9", "U+13EA", "U+13EB", "U+13EC", "U+13ED", "U+13EE", "U+13EF",
      "U+13F0", "U+13F1", "U+13F2", "U+13F3", "U+13F4", "U+13F5", "U+1C89",
      "U+1C90", "U+1C91", "U+1C92", "U+1C93", "U+1C94", "U+1C95", "U+1C96",
      "U+1C97", "U+1C98", "U+1C99", "U+1C9A", "U+1C9B", "U+1C9C", "U+1C9D",
      "U+1C9E", "U+1C9F", "U+1CA0", "U+1CA1", "U+1CA2", "U+1CA3", "U+1CA4",
      "U+1CA5", "U+1CA6", "U+1CA7", "U+1CA8", "U+1CA9", "U+1CAA", "U+1CAB",
      "U+1CAC", "U+1CAD", "U+1CAE", "U+1CAF", "U+1CB0", "U+1CB1", "U+1CB2",
      "U+1CB3", "U+1CB4", "U+1CB5", "U+1CB6", "U+1CB7", "U+1CB8", "U+1CB9",
      "U+1CBA", "U+1CBD", "U+1CBE", "U+1CBF", "U+1E00", "U+1E02", "U+1E04",
      "U+1E06", "U+1E08", "U+1E0A", "U+1E0C", "U+1E0E", "U+1E10", "U+1E12",
      "U+1E14", "U+1E16", "U+1E18", "U+1E1A", "U+1E1C", "U+1E1E", "U+1E20",
      "U+1E22", "U+1E24", "U+1E26", "U+1E28", "U+1E2A", "U+1E2C", "U+1E2E",
      "U+1E30", "U+1E32", "U+1E34", "U+1E36", "U+1E38", "U+1E3A", "U+1E3C",
      "U+1E3E", "U+1E40", "U+1E42", "U+1E44", "U+1E46", "U+1E48", "U+1E4A",
      "U+1E4C", "U+1E4E", "U+1E50", "U+1E52", "U+1E54", "U+1E56", "U+1E58",
      "U+1E5A", "U+1E5C", "U+1E5E", "U+1E60", "U+1E62", "U+1E64", "U+1E66",
      "U+1E68", "U+1E6A", "U+1E6C", "U+1E6E", "U+1E70", "U+1E72", "U+1E74",
      "U+1E76", "U+1E78", "U+1E7A", "U+1E7C", "U+1E7E", "U+1E80", "U+1E82",
      "U+1E84", "U+1E86", "U+1E88", "U+1E8A", "U+1E8C", "U+1E8E", "U+1E90",
      "U+1E92", "U+1E94", "U+1E9E", "U+1EA0", "U+1EA2", "U+1EA4", "U+1EA6",
      "U+1EA8", "U+1EAA", "U+1EAC", "U+1EAE", "U+1EB0", "U+1EB2", "U+1EB4",
      "U+1EB6", "U+1EB8", "U+1EBA", "U+1EBC", "U+1EBE", "U+1EC0", "U+1EC2",
      "U+1EC4", "U+1EC6", "U+1EC8", "U+1ECA", "U+1ECC", "U+1ECE", "U+1ED0",
      "U+1ED2", "U+1ED4", "U+1ED6", "U+1ED8", "U+1EDA", "U+1EDC", "U+1EDE",
      "U+1EE0", "U+1EE2", "U+1EE4", "U+1EE6", "U+1EE8", "U+1EEA", "U+1EEC",
      "U+1EEE", "U+1EF0", "U+1EF2", "U+1EF4", "U+1EF6", "U+1EF8", "U+1EFA",
      "U+1EFC", "U+1EFE", "U+1F08", "U+1F09", "U+1F0A", "U+1F0B", "U+1F0C",
      "U+1F0D", "U+1F0E", "U+1F0F", "U+1F18", "U+1F19", "U+1F1A", "U+1F1B",
      "U+1F1C", "U+1F1D", "U+1F28", "U+1F29", "U+1F2A", "U+1F2B", "U+1F2C",
      "U+1F2D", "U+1F2E", "U+1F2F", "U+1F38", "U+1F39", "U+1F3A", "U+1F3B",
      "U+1F3C", "U+1F3D", "U+1F3E", "U+1F3F", "U+1F48", "U+1F49", "U+1F4A",
      "U+1F4B", "U+1F4C", "U+1F4D", "U+1F59", "U+1F5B", "U+1F5D", "U+1F5F",
      "U+1F68", "U+1F69", "U+1F6A", "U+1F6B", "U+1F6C", "U+1F6D", "U+1F6E",
      "U+1F6F", "U+1F88", "U+1F89", "U+1F8A", "U+1F8B", "U+1F8C", "U+1F8D",
      "U+1F8E", "U+1F8F", "U+1F98", "U+1F99", "U+1F9A", "U+1F9B", "U+1F9C",
      "U+1F9D", "U+1F9E", "U+1F9F", "U+1FA8", "U+1FA9", "U+1FAA", "U+1FAB",
      "U+1FAC", "U+1FAD", "U+1FAE", "U+1FAF", "U+1FB8", "U+1FB9", "U+1FBA",
      "U+1FBB", "U+1FBC", "U+1FC8", "U+1FC9", "U+1FCA", "U+1FCB", "U+1FCC",
      "U+1FD8", "U+1FD9", "U+1FDA", "U+1FDB", "U+1FE8", "U+1FE9", "U+1FEA",
      "U+1FEB", "U+1FEC", "U+1FF8", "U+1FF9", "U+1FFA", "U+1FFB", "U+1FFC",
      "U+2126", "U+212A", "U+212B", "U+2132", "U+2160", "U+2161", "U+2162",
      "U+2163", "U+2164", "U+2165", "U+2166", "U+2167", "U+2168", "U+2169",
      "U+216A", "U+216B", "U+216C", "U+216D", "U+216E", "U+216F", "U+2183",
      "U+24B6", "U+24B7", "U+24B8", "U+24B9", "U+24BA", "U+24BB", "U+24BC",
      "U+24BD", "U+24BE", "U+24BF", "U+24C0", "U+24C1", "U+24C2", "U+24C3",
      "U+24C4", "U+24C5", "U+24C6", "U+24C7", "U+24C8", "U+24C9", "U+24CA",
      "U+24CB", "U+24CC", "U+24CD", "U+24CE", "U+24CF", "U+2C00", "U+2C01",
      "U+2C02", "U+2C03", "U+2C04", "U+2C05", "U+2C06", "U+2C07", "U+2C08",
      "U+2C09", "U+2C0A", "U+2C0B", "U+2C0C", "U+2C0D", "U+2C0E", "U+2C0F",
      "U+2C10", "U+2C11", "U+2C12", "U+2C13", "U+2C14", "U+2C15", "U+2C16",
      "U+2C17", "U+2C18", "U+2C19", "U+2C1A", "U+2C1B", "U+2C1C", "U+2C1D",
      "U+2C1E", "U+2C1F", "U+2C20", "U+2C21", "U+2C22", "U+2C23", "U+2C24",
      "U+2C25", "U+2C26", "U+2C27", "U+2C28", "U+2C29", "U+2C2A", "U+2C2B",
      "U+2C2C", "U+2C2D", "U+2C2E", "U+2C2F", "U+2C60", "U+2C62", "U+2C63",
      "U+2C64", "U+2C67", "U+2C69", "U+2C6B", "U+2C6D", "U+2C6E", "U+2C6F",
      "U+2C70", "U+2C72", "U+2C75", "U+2C7E", "U+2C7F", "U+2C80", "U+2C82",
      "U+2C84", "U+2C86", "U+2C88", "U+2C8A", "U+2C8C", "U+2C8E", "U+2C90",
      "U+2C92", "U+2C94", "U+2C96", "U+2C98", "U+2C9A", "U+2C9C", "U+2C9E",
      "U+2CA0", "U+2CA2", "U+2CA4", "U+2CA6", "U+2CA8", "U+2CAA", "U+2CAC",
      "U+2CAE", "U+2CB0", "U+2CB2", "U+2CB4", "U+2CB6", "U+2CB8", "U+2CBA",
      "U+2CBC", "U+2CBE", "U+2CC0", "U+2CC2", "U+2CC4", "U+2CC6", "U+2CC8",
      "U+2CCA", "U+2CCC", "U+2CCE", "U+2CD0", "U+2CD2", "U+2CD4", "U+2CD6",
      "U+2CD8", "U+2CDA", "U+2CDC", "U+2CDE", "U+2CE0", "U+2CE2", "U+2CEB",
      "U+2CED", "U+2CF2", "U+A640", "U+A642", "U+A644", "U+A646", "U+A648",
      "U+A64A", "U+A64C", "U+A64E", "U+A650", "U+A652", "U+A654", "U+A656",
      "U+A658", "U+A65A", "U+A65C", "U+A65E", "U+A660", "U+A662", "U+A664",
      "U+A666", "U+A668", "U+A66A", "U+A66C", "U+A680", "U+A682", "U+A684",
      "U+A686", "U+A688", "U+A68A", "U+A68C", "U+A68E", "U+A690", "U+A692",
      "U+A694", "U+A696", "U+A698", "U+A69A", "U+A722", "U+A724", "U+A726",
      "U+A728", "U+A72A", "U+A72C", "U+A72E", "U+A732", "U+A734", "U+A736",
      "U+A738", "U+A73A", "U+A73C", "U+A73E", "U+A740", "U+A742", "U+A744",
      "U+A746", "U+A748", "U+A74A", "U+A74C", "U+A74E", "U+A750", "U+A752",
      "U+A754", "U+A756", "U+A758", "U+A75A", "U+A75C", "U+A75E", "U+A760",
      "U+A762", "U+A764", "U+A766", "U+A768", "U+A76A", "U+A76C", "U+A76E",
      "U+A779", "U+A77B", "U+A77D", "U+A77E", "U+A780", "U+A782", "U+A784",
      "U+A786", "U+A78B", "U+A78D", "U+A790", "U+A792", "U+A796", "U+A798",
      "U+A79A", "U+A79C", "U+A79E", "U+A7A0", "U+A7A2", "U+A7A4", "U+A7A6",
      "U+A7A8", "U+A7AA", "U+A7AB", "U+A7AC", "U+A7AD", "U+A7AE", "U+A7B0",
      "U+A7B1", "U+A7B2", "U+A7B3", "U+A7B4", "U+A7B6", "U+A7B8", "U+A7BA",
      "U+A7BC", "U+A7BE", "U+A7C0", "U+A7C2", "U+A7C4", "U+A7C5", "U+A7C6",
      "U+A7C7", "U+A7C9", "U+A7CB", "U+A7CC", "U+A7CE", "U+A7D0", "U+A7D2",
      "U+A7D4", "U+A7D6", "U+A7D8", "U+A7DA", "U+A7DC", "U+A7F5", "U+FF21",
      "U+FF22", "U+FF23", "U+FF24", "U+FF25", "U+FF26", "U+FF27", "U+FF28",
      "U+FF29", "U+FF2A", "U+FF2B", "U+FF2C", "U+FF2D", "U+FF2E", "U+FF2F",
      "U+FF30", "U+FF31", "U+FF32", "U+FF33", "U+FF34", "U+FF35", "U+FF36",
      "U+FF37", "U+FF38", "U+FF39", "U+FF3A">>

LowerBeyond ==
    <<"U+0101", "U+0103", "U+0105", "U+0107", "U+0109", "U+010B", "U+010D",
      "U+010F", "U+0111", "U+0113", "U+0115", "U+0117", "U+0119", "U+011B",
      "U+011D", "U+011F", "U+0121", "U+0123", "U+0125", "U+0127", "U+0129",
      "U+012B", "U+012D", "U+012F", "U+0133", "U+0135", "U+0137", "U+013A",
      "U+013C", "U+013E", "U+0140", "U+0142", "U+0144", "U+0146", "U+0148",
      "U+014B", "U+014D", "U+014F", "U+0151", "U+0153", "U+0155", "U+0157",
      "U+0159", "U+015B", "U+015D", "U+015F", "U+0161", "U+0163", "U+0165",
      "U+0167", "U+0169", "U+016B", "U+016D", "U+016F", "U+0171", "U+0173",
      "U+0175", "U+0177", "ÿ", "U+017A", "U+017C", "U+017E", "U+0253",
      "U+0183", "U+0185", "U+0254", "U+0188", "U+0256", "U+0257", "U+018C",
      "U+01DD", "U+0259", "U+025B", "U+0192", "U+0260", "U+0263", "U+0269",
      "U+0268", "U+0199", "U+026F", "U+0272", "U+0275", "U+01A1", "U+01A3",
      "U+01A5", "U+0280", "U+01A8", "U+0283", "U+01AD", "U+0288", "U+01B0",
      "U+028A", "U+028B", "U+01B4", "U+01B6", "U+0292", "U+01B9", "U+01BD",
      "U+01C6", "U+01C6", "U+01C9", "U+01C9", "U+01CC", "U+01CC", "U+01CE",
      "U+01D0", "U+01D2", "U+01D4", "U+01D6", "U+01D8", "U+01DA", "U+01DC",
      "U+01DF", "U+01E1", "U+01E3", "U+01E5", "U+01E7", "U+01E9", "U+01EB",
      "U+01ED", "U+01EF", "U+01F3", "U+01F3", "U+01F5", "U+0195", "U+01BF",
      "U+01F9", "U+01FB", "U+01FD", "U+01FF", "U+0201", "U+0203", "U+0205",
      "U+0207", "U+0209", "U+020B", "U+020D", "U+020F", "U+0211", "U+0213",
      "U+0215", "U+0217", "U+0219", "U+021B", "U+021D", "U+021F", "U+019E",
      "U+0223", "U+0225", "U+0227", "U+0229", "U+022B", "U+022D", "U+022F",
      "U+0231", "U+0233", "U+2C65", "U+023C", "U+019A", "U+2C66", "U+0242",
      "U+0180", "U+0289", "U+028C", "U+0247", "U+0249", "U+024B", "U+024D",
      "U+024F", "U+0371", "U+0373", "U+0377", "U+03F3", "U+03AC", "U+03AD",
      "U+03AE", "U+03AF", "U+03CC", "U+03CD", "U+03CE", "U+03B1", "U+03B2",
      "U+03B3", "U+03B4", "U+03B5", "U+03B6", "U+03B7", "U+03B8", "U+03B9",
      "U+03BA", "U+03BB", "U+03BC", "U+03BD", "U+03BE", "U+03BF", "U+03C0",
      "U+03C1", "U+03C3", "U+03C4", "U+03C5", "U+03C6", "U+03C7", "U+03C8",
      "U+03C9", "U+03CA", "U+03CB", "U+03D7", "U+03D9", "U+03DB", "U+03DD",
      "U+03DF", "U+03E1", "U+03E3", "U+03E5", "U+03E7", "U+03E9", "U+03EB",
      "U+03ED", "U+03EF", "U+03B8", "U+03F8", "U+03F2", "U+03FB", "U+037B",
      "U+037C", "U+037D", "U+0450", "U+0451", "U+0452", "U+0453", "U+0454",
      "U+0455", "U+0456", "U+0457", "U+0458", "U+0459", "U+045A", "U+045B",
      "U+045C", "U+045D", "U+045E", "U+045F", "U+0430", "U+0431", "U+0432",
      "U+0433", "U+0434", "U+0435", "U+0436", "U+0437", "U+0438", "U+0439",
      "U+043A", "U+043B", "U+043C", "U+043D", "U+043E", "U+043F", "U+0440",
      "U+0441", "U+0442", "U+0443", "U+0444", "U+0445", "U+0446", "U+0447",
      "U+0448", "U+0449", "U+044A", "U+044B", "U+044C", "U+044D", "U+044E",
      "U+044F", "U+0461", "U+0463", "U+0465", "U+0467", "U+0469", "U+046B",
      "U+046D", "U+046F", "U+0471", "U+0473", "U+0475", "U+0477", "U+0479",
      "U+047B", "U+047D", "U+047F", "U+0481", "U+048B", "U+048D", "U+048F",
      "U+0491", "U+0493", "U+0495", "U+0497", "U+0499", "U+049B", "U+049D",
      "U+049F", "U+04A1", "U+04A3", "U+04A5", "U+04A7", "U+04A9", "U+04AB",
      "U+04AD", "U+04AF", "U+04B1", "U+04B3", "U+04B5", "U+04B7", "U+04B9",
      "U+04BB", "U+04BD", "U+04BF", "U+04CF", "U+04C2", "U+04C4", "U+04C6",
      "U+04C8", "U+04CA", "U+04CC", "U+04CE", "U+04D1", "U+04D3", "U+04D5",
      "U+04D7", "U+04D9", "U+04DB", "U+04DD", "U+04DF", "U+04E1", "U+04E3",
      "U+04E5", "U+04E7", "U+04E9", "U+04EB", "U+04ED", "U+04EF", "U+04F1",
      "U+04F3", "U+04F5", "U+04F7", "U+04F9", "U+04FB", "U+04FD", "U+04FF",
      "U+0501", "U+0503", "U+0505", "U+0507", "U+0509", "U+050B", "U+050D",
      "U+050F", "U+0511", "U+0513", "U+0515", "U+0517", "U+0519", "U+051B",
      "U+051D", "U+051F", "U+0521", "U+0523", "U+0525", "U+0527", "U+0529",
      "U+052B", "U+052D", "U+052F", "U+0561", "U+0562", "U+0563", "U+0564",
      "U+0565", "U+0566", "U+0567", "U+0568", "U+0569", "U+056A", "U+056B",
      "U+056C", "U+056D", "U+056E", "U+056F", "U+0570", "U+0571", "U+0572",
      "U+0573", "U+0574", "U+0575", "U+0576", "U+0577", "U+0578", "U+0579",
      "U+057A", "U+057B", "U+057C", "U+057D", "U+057E", "U+057F", "U+0580",
      "U+0581", "U+0582", "U+0583", "U+0584", "U+0585", "U+0586", "U+2D00",
      "U+2D01", "U+2D02", "U+2D03", "U+2D04", "U+2D05", "U+2D06", "U+2D07",
      "U+2D08", "U+2D09", "U+2D0A", "U+2D0B", "U+2D0C", "U+2D0D", "U+2D0E",
      "U+2D0F", "U+2D10", "U+2D11", "U+2D12", "U+2D13", "U+2D14", "U+2D15",
      "U+2D16", "U+2D17", "U+2D18", "U+2D19", "U+2D1A", "U+2D1B", "U+2D1C",
      "U+2D1D", "U+2D1E", "U+2D1F", "U+2D20", "U+2D21", "U+2D22", "U+2D23",
      "U+2D24", "U+2D25", "U+2D27", "U+2D2D", "U+AB70", "U+AB71", "U+AB72",
      "U+AB73", "U+AB74", "U+AB75", "U+AB76", "U+AB77", "U+AB78", "U+AB79",
      "U+AB7A", "U+AB7B", "U+AB7C", "U+AB7D", "U+AB7E", "U+AB7F", "U+AB80",
      "U+AB81", "U+AB82", "U+AB83", "U+AB84", "U+AB85", "U+AB86", "U+AB87",
      "U+AB88", "U+AB89", "U+AB8A", "U+AB8B", "U+AB8C", "U+AB8D", "U+AB8E",
      "U+AB8F", "U+AB90", "U+AB91", "U+AB92", "U+AB93", "U+AB94", "U+AB95",
      "U+AB96", "U+AB97", "U+AB98", "U+AB99", "U+AB9A", "U+AB9B", "U+AB9C",
      "U+AB9D", "U+AB9E", "U+AB9F", "U+ABA0", "U+ABA1", "U+ABA2", "U+ABA3",
      "U+ABA4", "U+ABA5", "U+ABA6", "U+ABA7", "U+ABA8", "U+ABA9", "U+ABAA",
      "U+ABAB", "U+ABAC", "U+ABAD", "U+ABAE", "U+ABAF", "U+ABB0", "U+ABB1",
      "U+ABB2", "U+ABB3", "U+ABB4", "U+ABB5", "U+ABB6", "U+ABB7", "U+ABB8",
      "U+ABB9", "U+ABBA", "U+ABBB", "U+ABBC", "U+ABBD", "U+ABBE", "U+ABBF",
      "U+13F8", "U+13F9", "U+13FA", "U+13FB", "U+13FC", "U+13FD", "U+1C8A",
      "U+10D0", "U+10D1", "U+10D2", "U+10D3", "U+10D4", "U+10D5", "U+10D6",
      "U+10D7", "U+10D8", "U+10D9", "U+10DA", "U+10DB", "U+10DC", "U+10DD",
      "U+10DE", "U+10DF", "U+10E0", "U+10E1", "U+10E2", "U+10E3", "U+10E4",
      "U+10E5", "U+10E6", "U+10E7", "U+10E8", "U+10E9", "U+10EA", "U+10EB",
      "U+10EC", "U+10ED", "U+10EE", "U+10EF", "U+10F0", "U+10F1", "U+10F2",
      "U+10F3", "U+10F4", "U+10F5", "U+10F6", "U+10F7", "U+10F8", "U+10F9",
      "U+10FA", "U+10FD", "U+10FE", "U+10FF", "U+1E01", "U+1E03", "U+1E05",
      "U+1E07", "U+1E09", "U+1E0B", "U+1E0D", "U+1E0F", "U+1E11", "U+1E13",
      "U+1E15", "U+1E17", "U+1E19", "U+1E1B", "U+1E1D", "U+1E1F", "U+1E21",
      "U+1E23", "U+1E25", "U+1E27", "U+1E29", "U+1E2B", "U+1E2D", "U+1E2F",
      "U+1E31", "U+1E33", "U+1E35", "U+1E37", "U+1E39", "U+1E3B", "U+1E3D",
      "U+1E3F", "U+1E41", "U+1E43", "U+1E45", "U+1E47", "U+1E49", "U+1E4B",
      "U+1E4D", "U+1E4F", "U+1E51", "U+1E53", "U+1E55", "U+1E57", "U+1E59",
      "U+1E5B", "U+1E5D", "U+1E5F", "U+1E61", "U+1E63", "U+1E65", "U+1E67",
      "U+1E69", "U+1E6B", "U+1E6D", "U+1E6F", "U+1E71", "U+1E73", "U+1E75",
      "U+1E77", "U+1E79", "U+1E7B", "U+1E7D", "U+1E7F", "U+1E81", "U+1E83",
      "U+1E85", "U+1E87", "U+1E89", "U+1E8B", "U+1E8D", "U+1E8F", "U+1E91",
      "U+1E93", "U+1E95", "ß", "U+1EA1", "U+1EA3", "U+1EA5", "U+1EA7",
      "U+1EA9", "U+1EAB", "U+1EAD", "U+1EAF", "U+1EB1", "U+1EB3", "U+1EB5",
      "U+1EB7", "U+1EB9", "U+1EBB", "U+1EBD", "U+1EBF", "U+1EC1", "U+1EC3",
      "U+1EC5", "U+1EC7", "U+1EC9", "U+1ECB", "U+1ECD", "U+1ECF", "U+1ED1",
      "U+1ED3", "U+1ED5", "U+1ED7", "U+1ED9", "U+1EDB", "U+1EDD", "U+1EDF",
      "U+1EE1", "U+1EE3", "U+1EE5", "U+1EE7", "U+1EE9", "U+1EEB", "U+1EED",
      "U+1EEF", "U+1EF1", "U+1EF3", "U+1EF5", "U+1EF7", "U+1EF9", "U+1EFB",
      "U+1EFD", "U+1EFF", "U+1F00", "U+1F01", "U+1F02", "U+1F03", "U+1F04",
      "U+1F05", "U+1F06", "U+1F07", "U+1F10", "U+1F11", "U+1F12", "U+1F13",
      "U+1F14", "U+1F15", "U+1F20", "U+1F21", "U+1F22", "U+1F23", "U+1F24",
      "U+1F25", "U+1F26", "U+1F27", "U+1F30", "U+1F31", "U+1F32", "U+1F33",
      "U+1F34", "U+1F35", "U+1F36", "U+1F37", "U+1F40", "U+1F41", "U+1F42",
      "U+1F43", "U+1F44", "U+1F45", "U+1F51", "U+1F53", "U+1F55", "U+1F57",
      "U+1F60", "U+1F61", "U+1F62", "U+1F63", "U+1F64", "U+1F65", "U+1F66",
      "U+1F67", "U+1F80", "U+1F81", "U+1F82", "U+1F83", "U+1F84", "U+1F85",
      "U+1F86", "U+1F87", "U+1F90", "U+1F91", "U+1F92", "U+1F93", "U+1F94",
      "U+1F95", "U+1F96", "U+1F97", "U+1FA0", "U+1FA1", "U+1FA2", "U+1FA3",
      "U+1FA4", "U+1FA5", "U+1FA6", "U+1FA7", "U+1FB0", "U+1FB1", "U+1F70",
      "U+1F71", "U+1FB3", "U+1F72", "U+1F73", "U+1F74", "U+1F75", "U+1FC3",
      "U+1FD0", "U+1FD1", "U+1F76", "U+1F77", "U+1FE0", "U+1FE1", "U+1F7A",
      "U+1F7B", "U+1FE5", "U+1F78", "U+1F79", "U+1F7C", "U+1F7D", "U+1FF3",
      "U+03C9", "k", "å", "U+214E", "U+2170", "U+2171", "U+2172", "U+2173",
      "U+2174", "U+2175", "U+2176", "U+2177", "U+2178", "U+2179", "U+217A",
      "U+217B", "U+217C", "U+217D", "U+217E", "U+217F", "U+2184", "U+24D0",
      "U+24D1", "U+24D2", "U+24D3", "U+24D4", "U+24D5", "U+24D6", "U+24D7",
      "U+24D8", "U+24D9", "U+24DA", "U+24DB", "U+24DC", "U+24DD", "U+24DE",
      "U+24DF", "U+24E0", "U+24E1", "U+24E2", "U+24E3", "U+24E4", "U+24E5",
      "U+24E6", "U+24E7", "U+24E8", "U+24E9", "U+2C30", "U+2C31", "U+2C32",
      "U+2C33", "U+2C34", "U+2C35", "U+2C36", "U+2C37", "U+2C38", "U+2C39",
      "U+2C3A", "U+2C3B", "U+2C3C", "U+2C3D", "U+2C3E", "U+2C3F", "U+2C40",
      "U+2C41", "U+2C42", "U+2C43", "U+2C44", "U+2C45", "U+2C46", "U+2C47",
      "U+2C48", "U+2C49", "U+2C4A", "U+2C4B", "U+2C4C", "U+2C4D", "U+2C4E",
      "U+2C4F", "U+2C50", "U+2C51", "U+2C52", "U+2C53", "U+2C54", "U+2C55",
      "U+2C56", "U+2C57", "U+2C58", "U+2C59", "U+2C5A", "U+2C5B", "U+2C5C",
      "U+2C5D", "U+2C5E", "U+2C5F", "U+2C61", "U+026B", "U+1D7D", "U+027D",
      "U+2C68", "U+2C6A", "U+2C6C", "U+0251", "U+0271", "U+0250", "U+0252",
      "U+2C73", "U+2C76", "U+023F", "U+0240", "U+2C81", "U+2C83", "U+2C85",
      "U+2C87", "U+2C89", "U+2C8B", "U+2C8D", "U+2C8F", "U+2C91", "U+2C93",
      "U+2C95", "U+2C97", "U+2C99", "U+2C9B", "U+2C9D", "U+2C9F", "U+2CA1",
      "U+2CA3", "U+2CA5", "U+2CA7", "U+2CA9", "U+2CAB", "U+2CAD", "U+2CAF",
      "U+2CB1", "U+2CB3", "U+2CB5", "U+2CB7", "U+2CB9", "U+2CBB", "U+2CBD",
      "U+2CBF", "U+2CC1", "U+2CC3", "U+2CC5", "U+2CC7", "U+2CC9", "U+2CCB",
      "U+2CCD", "U+2CCF", "U+2CD1", "U+2CD3", "U+2CD5", "U+2CD7", "U+2CD9",
      "U+2CDB", "U+2CDD", "U+2CDF", "U+2CE1", "U+2CE3", "U+2CEC", "U+2CEE",
      "U+2CF3", "U+A641", "U+A643", "U+A645", "U+A647", "U+A649", "U+A64B",
      "U+A64D", "U+A64F", "U+A651", "U+A653", "U+A655", "U+A657", "U+A659",
      "U+A65B", "U+A65D", "U+A65F", "U+A661", "U+A663", "U+A665", "U+A667",
      "U+A669", "U+A66B", "U+A66D", "U+A681", "U+A683", "U+A685", "U+A687",
      "U+A689", "U+A68B", "U+A68D", "U+A68F", "U+A691", "U+A693", "U+A695",
      "U+A697", "U+A699", "U+A69B", "U+A723", "U+A725", "U+A727", "U+A729",
      "U+A72B", "U+A72D", "U+A72F", "U+A733", "U+A735", "U+A737", "U+A739",
      "U+A73B", "U+A73D", "U+A73F", "U+A741", "U+A743", "U+A745", "U+A747",
      "U+A749", "U+A74B", "U+A74D", "U+A74F", "U+A751", "U+A753", "U+A755",
      "U+A757", "U+A759", "U+A75B", "U+A75D", "U+A75F", "U+A761", "U+A763",
      "U+A765", "U+A767", "U+A769", "U+A76B", "U+A76D", "U+A76F", "U+A77A",
      "U+A77C", "U+1D79", "U+A77F", "U+A781", "U+A783", "U+A785", "U+A787",
      "U+A78C", "U+0265", "U+A791", "U+A793", "U+A797", "U+A799", "U+A79B",
      "U+A79D", "U+A79F", "U+A7A1", "U+A7A3", "U+A7A5", "U+A7A7", "U+A7A9",
      "U+0266", "U+025C", "U+0261", "U+026C", "U+026A", "U+029E", "U+0287",
      "U+029D", "U+AB53", "U+A7B5", "U+A7B7", "U+A7B9", "U+A7BB", "U+A7BD",
      "U+A7BF", "U+A7C1", "U+A7C3", "U+A794", "U+0282", "U+1D8E", "U+A7C8",
      "U+A7CA", "U+0264", "U+A7CD", "U+A7CF", "U+A7D1", "U+A7D3", "U+A7D5",
      "U+A7D7", "U+A7D9", "U+A7DB", "U+019B", "U+A7F6", "U+FF41", "U+FF42",
      "U+FF43", "U+FF44", "U+FF45", "U+FF46", "U+FF47", "U+FF48", "U+FF49",
      "U+FF4A", "U+FF4B", "U+FF4C", "U+FF4D", "U+FF4E", "U+FF4F", "U+FF50",
      "U+FF51", "U+FF52", "U+FF53", "U+FF54", "U+FF55", "U+FF56", "U+FF57",
      "U+FF58", "U+FF59", "U+FF5A">>

\* the letters beyond the Basic Multilingual Plane that toLowerCase changes:
\* the low surrogates that make one after a high surrogate, and the low
\* surrogates of what it makes of them (the high surrogate stays)
UpperLows(high) ==
    CASE high = "U+D801" -> <<"U+DC00", "U+DC01", "U+DC02", "U+DC03",
                              "U+DC04", "U+DC05", "U+DC06", "U+DC07",
                              "U+DC08", "U+DC09", "U+DC0A", "U+DC0B",
                              "U+DC0C", "U+DC0D", "U+DC0E", "U+DC0F",
                              "U+DC10", "U+DC11", "U+DC12", "U+DC13",
                              "U+DC14", "U+DC15", "U+DC16", "U+DC17",
                              "U+DC18", "U+DC19", "U+DC1A", "U+DC1B",
                              "U+DC1C", "U+DC1D", "U+DC1E", "U+DC1F",
                              "U+DC20", "U+DC21", "U+DC22", "U+DC23",
                              "U+DC24", "U+DC25", "U+DC26", "U+DC27",
                              "U+DCB0", "U+DCB1", "U+DCB2", "U+DCB3",
                              "U+DCB4", "U+DCB5", "U+DCB6", "U+DCB7",
                              "U+DCB8", "U+DCB9", "U+DCBA", "U+DCBB",
                              "U+DCBC", "U+DCBD", "U+DCBE", "U+DCBF",
                              "U+DCC0", "U+DCC1", "U+DCC2", "U+DCC3",
                              "U+DCC4", "U+DCC5", "U+DCC6", "U+DCC7",
                              "U+DCC8", "U+DCC9", "U+DCCA", "U+DCCB",
                              "U+DCCC", "U+DCCD", "U+DCCE", "U+DCCF",
                              "U+DCD0", "U+DCD1", "U+DCD2", "U+DCD3",
                              "U+DD70", "U+DD71", "U+DD72", "U+DD73",
                              "U+DD74", "U+DD75", "U+DD76", "U+DD77",
                              "U+DD78", "U+DD79", "U+DD7A", "U+DD7C",
                              "U+DD7D", "U+DD7E", "U+DD7F", "U+DD80",
                              "U+DD81", "U+DD82", "U+DD83", "U+DD84",
                              "U+DD85", "U+DD86", "U+DD87", "U+DD88",
                              "U+DD89", "U+DD8A", "U+DD8C", "U+DD8D",
                              "U+DD8E", "U+DD8F", "U+DD90", "U+DD91",
                              "U+DD92", "U+DD94", "U+DD95">>
      [] high = "U+D803" -> <<"U+DC80", "U+DC81", "U+DC82", "U+DC83",
                              "U+DC84", "U+DC85", "U+DC86", "U+DC87",
                              "U+DC88", "U+DC89", "U+DC8A", "U+DC8B",
                              "U+DC8C", "U+DC8D", "U+DC8E", "U+DC8F",
                              "U+DC90", "U+DC91", "U+DC92", "U+DC93",
                              "U+DC94", "U+DC95", "U+DC96", "U+DC97",
                              "U+DC98", "U+DC99", "U+DC9A", "U+DC9B",
                              "U+DC9C", "U+DC9D", "U+DC9E", "U+DC9F",
                              "U+DCA0", "U+DCA1", "U+DCA2", "U+DCA3",
                              "U+DCA4", "U+DCA5", "U+DCA6", "U+DCA7",
                              "U+DCA8", "U+DCA9", "U+DCAA", "U+DCAB",
                              "U+DCAC", "U+DCAD", "U+DCAE", "U+DCAF",
                              "U+DCB0", "U+DCB1", "U+DCB2", "U+DD50",
                              "U+DD51", "U+DD52", "U+DD53", "U+DD54",
                              "U+DD55", "U+DD56", "U+DD57", "U+DD58",
                              "U+DD59", "U+DD5A", "U+DD5B", "U+DD5C",
                              "U+DD5D", "U+DD5E", "U+DD5F", "U+DD60",
                              "U+DD61", "U+DD62", "U+DD63", "U+DD64",
                              "U+DD65">>
      [] high = "U+D806" -> <<"U+DCA0", "U+DCA1", "U+DCA2", "U+DCA3",
                              "U+DCA4", "U+DCA5", "U+DCA6", "U+DCA7",
                              "U+DCA8", "U+DCA9", "U+DCAA", "U+DCAB",
                              "U+DCAC", "U+DCAD", "U+DCAE", "U+DCAF",
                              "U+DCB0", "U+DCB1", "U+DCB2", "U+DCB3",
                              "U+DCB4", "U+DCB5", "U+DCB6", "U+DCB7",
                              "U+DCB8", "U+DCB9", "U+DCBA", "U+DCBB",
                              "U+DCBC", "U+DCBD", "U+DCBE", "U+DCBF">>
      [] high = "U+D81B" -> <<"U+DE40", "U+DE41", "U+DE42", "U+DE43",
                              "U+DE44", "U+DE45", "U+DE46", "U+DE47",
                              "U+DE48", "U+DE49", "U+DE4A", "U+DE4B",
                              "U+DE4C", "U+DE4D", "U+DE4E", "U+DE4F",
                              "U+DE50", "U+DE51", "U+DE52", "U+DE53",
                              "U+DE54", "U+DE55", "U+DE56", "U+DE57",
                              "U+DE58", "U+DE59", "U+DE5A", "U+DE5B",
                              "U+DE5C", "U+DE5D", "U+DE5E", "U+DE5F",
                              "U+DEA0", "U+DEA1", "U+DEA2", "U+DEA3",
                              "U+DEA4", "U+DEA5", "U+DEA6", "U+DEA7",
                              "U+DEA8", "U+DEA9", "U+DEAA", "U+DEAB",
                              "U+DEAC", "U+DEAD", "U+DEAE", "U+DEAF",
                              "U+DEB0", "U+DEB1", "U+DEB2", "U+DEB3",
                              "U+DEB4", "U+DEB5", "U+DEB6", "U+DEB7",
                              "U+DEB8">>
      [] high = "U+D83A" -> <<"U+DD00", "U+DD01", "U+DD02", "U+DD03",
                              "U+DD04", "U+DD05", "U+DD06", "U+DD07",
                              "U+DD08", "U+DD09", "U+DD0A", "U+DD0B",
                              "U+DD0C", "U+DD0D", "U+DD0E", "U+DD0F",
                              "U+DD10", "U+DD11", "U+DD12", "U+DD13",
                              "U+DD14", "U+DD15", "U+DD16", "U+DD17",
                              "U+DD18", "U+DD19", "U+DD1A", "U+DD1B",
                              "U+DD1C", "U+DD1D", "U+DD1E", "U+DD1F",
                              "U+DD20", "U+DD21">>
      [] OTHER -> <<>>

LowerLows(high) ==
    CASE high = "U+D801" -> <<"U+DC28", "U+DC29", "U+DC2A", "U+DC2B",
                              "U+DC2C", "U+DC2D", "U+DC2E", "U+DC2F",
                              "U+DC30", "U+DC31", "U+DC32", "U+DC33",
                              "U+DC34", "U+DC35", "U+DC36", "U+DC37",
                              "U+DC38", "U+DC39", "U+DC3A", "U+DC3B",
                              "U+DC3C", "U+DC3D", "U+DC3E", "U+DC3F",
                              "U+DC40", "U+DC41", "U+DC42", "U+DC43",
                              "U+DC44", "U+DC45", "U+DC46", "U+DC47",
                              "U+DC48", "U+DC49", "U+DC4A", "U+DC4B",
                              "U+DC4C", "U+DC4D", "U+DC4E", "U+DC4F",
                              "U+DCD8", "U+DCD9", "U+DCDA", "U+DCDB",
                              "U+DCDC", "U+DCDD", "U+DCDE", "U+DCDF",
                              "U+DCE0", "U+DCE1", "U+DCE2", "U+DCE3",
                              "U+DCE4", "U+DCE5", "U+DCE6", "U+DCE7",
                              "U+DCE8", "U+DCE9", "U+DCEA", "U+DCEB",
                              "U+DCEC", "U+DCED", "U+DCEE", "U+DCEF",
                              "U+DCF0", "U+DCF1", "U+DCF2", "U+DCF3",
                              "U+DCF4", "U+DCF5", "U+DCF6", "U+DCF7",
                              "U+DCF8", "U+DCF9", "U+DCFA", "U+DCFB",
                              "U+DD97", "U+DD98", "U+DD99", "U+DD9A",
                              "U+DD9B", "U+DD9C", "U+DD9D", "U+DD9E",
                              "U+DD9F", "U+DDA0", "U+DDA1", "U+DDA3",
                              "U+DDA4", "U+DDA5", "U+DDA6", "U+DDA7",
                              "U+DDA8", "U+DDA9", "U+DDAA", "U+DDAB",
                              "U+DDAC", "U+DDAD", "U+DDAE", "U+DDAF",
                              "U+DDB0", "U+DDB1", "U+DDB3", "U+DDB4",
                              "U+DDB5", "U+DDB6", "U+DDB7", "U+DDB8",
                              "U+DDB9", "U+DDBB", "U+DDBC">>
      [] high = "U+D803" -> <<"U+DCC0", "U+DCC1", "U+DCC2", "U+DCC3",
                              "U+DCC4", "U+DCC5", "U+DCC6", "U+DCC7",
                              "U+DCC8", "U+DCC9", "U+DCCA", "U+DCCB",
                              "U+DCCC", "U+DCCD", "U+DCCE", "U+DCCF",
                              "U+DCD0", "U+DCD1", "U+DCD2", "U+DCD3",
                              "U+DCD4", "U+DCD5", "U+DCD6", "U+DCD7",
                              "U+DCD8", "U+DCD9", "U+DCDA", "U+DCDB",
                              "U+DCDC", "U+DCDD", "U+DCDE", "U+DCDF",
                              "U+DCE0", "U+DCE1", "U+DCE2", "U+DCE3",
                              "U+DCE4", "U+DCE5", "U+DCE6", "U+DCE7",
                              "U+DCE8", "U+DCE9", "U+DCEA", "U+DCEB",
                              "U+DCEC", "U+DCED", "U+DCEE", "U+DCEF",
                              "U+DCF0", "U+DCF1", "U+DCF2", "U+DD70",
                              "U+DD71", "U+DD72", "U+DD73", "U+DD74",
                              "U+DD75", "U+DD76", "U+DD77", "U+DD78",
                              "U+DD79", "U+DD7A", "U+DD7B", "U+DD7C",
                              "U+DD7D", "U+DD7E", "U+DD7F", "U+DD80",
                              "U+DD81", "U+DD82", "U+DD83", "U+DD84",
                              "U+DD85">>
      [] high = "U+D806" -> <<"U+DCC0", "U+DCC1", "U+DCC2", "U+DCC3",
                              "U+DCC4", "U+DCC5", "U+DCC6", "U+DCC7",
                              "U+DCC8", "U+DCC9", "U+DCCA", "U+DCCB",
                              "U+DCCC", "U+DCCD", "U+DCCE", "U+DCCF",
                              "U+DCD0", "U+DCD1", "U+DCD2", "U+DCD3",
                              "U+DCD4", "U+DCD5", "U+DCD6", "U+DCD7",
                              "U+DCD8", "U+DCD9", "U+DCDA", "U+DCDB",
                              "U+DCDC", "U+DCDD", "U+DCDE", "U+DCDF">>
      [] high = "U+D81B" -> <<"U+DE60", "U+DE61", "U+DE62", "U+DE63",
                              "U+DE64", "U+DE65", "U+DE66", "U+DE67",
                              "U+DE68", "U+DE69", "U+DE6A", "U+DE6B",
                              "U+DE6C", "U+DE6D", "U+DE6E", "U+DE6F",
                              "U+DE70", "U+DE71", "U+DE72", "U+DE73",
                              "U+DE74", "U+DE75", "U+DE76", "U+DE77",
                              "U+DE78", "U+DE79", "U+DE7A", "U+DE7B",
                              "U+DE7C", "U+DE7D", "U+DE7E", "U+DE7F",
                              "U+DEBB", "U+DEBC", "U+DEBD", "U+DEBE",
                              "U+DEBF", "U+DEC0", "U+DEC1", "U+DEC2",
                              "U+DEC3", "U+DEC4", "U+DEC5", "U+DEC6",
                              "U+DEC7", "U+DEC8", "U+DEC9", "U+DECA",
                              "U+DECB", "U+DECC", "U+DECD", "U+DECE",
                              "U+DECF", "U+DED0", "U+DED1", "U+DED2",
                              "U+DED3">>
      [] high = "U+D83A" -> <<"U+DD22", "U+DD23", "U+DD24", "U+DD25",
                              "U+DD26", "U+DD27", "U+DD28", "U+DD29",
                              "U+DD2A", "U+DD2B", "U+DD2C", "U+DD2D",
                              "U+DD2E", "U+DD2F", "U+DD30", "U+DD31",
                              "U+DD32", "U+DD33", "U+DD34", "U+DD35",
                              "U+DD36", "U+DD37", "U+DD38", "U+DD39",
                              "U+DD3A", "U+DD3B", "U+DD3C", "U+DD3D",
                              "U+DD3E", "U+DD3F", "U+DD40", "U+DD41",
                              "U+DD42", "U+DD43">>
      [] OTHER -> <<>>

\* the case-ignorable characters of the Basic Multilingual Plane (Unicode
\* 17): a final sigma is looked for across them
CaseIgnorable ==
    {"'", ".", ":", "^", "U+0060", "¨", "­", "¯", "´", "·", "¸", "U+02B0",
     "U+02B1", "U+02B2", "U+02B3", "U+02B4", "U+02B5", "U+02B6", "U+02B7",
     "U+02B8", "U+02B9", "U+02BA", "U+02BB", "U+02BC", "U+02BD", "U+02BE",
     "U+02BF", "U+02C0", "U+02C1", "U+02C2", "U+02C3", "U+02C4", "U+02C5",
     "U+02C6", "U+02C7", "U+02C8", "U+02C9", "U+02CA", "U+02CB", "U+02CC",
     "U+02CD", "U+02CE", "U+02CF", "U+02D0", "U+02D1", "U+02D2", "U+02D3",
     "U+02D4", "U+02D5", "U+02D6", "U+02D7", "U+02D8", "U+02D9", "U+02DA",
     "U+02DB", "U+02DC", "U+02DD", "U+02DE", "U+02DF", "U+02E0", "U+02E1",
     "U+02E2", "U+02E3", "U+02E4", "U+02E5", "U+02E6", "U+02E7", "U+02E8",
     "U+02E9", "U+02EA", "U+02EB", "U+02EC", "U+02ED", "U+02EE", "U+02EF",
     "U+02F0", "U+02F1", "U+02F2", "U+02F3", "U+02F4", "U+02F5", "U+02F6",
     "U+02F7", "U+02F8", "U+02F9", "U+02FA", "U+02FB", "U+02FC", "U+02FD",
     "U+02FE", "U+02FF", "U+0300", "U+0301", "U+0302", "U+0303", "U+0304",
     "U+0305", "U+0306", "U+0307", "U+0308", "U+0309", "U+030A", "U+030B",
     "U+030C", "U+030D", "U+030E", "U+030F", "U+0310", "U+0311", "U+0312",
     "U+0313", "U+0314", "U+0315", "U+0316", "U+0317", "U+0318", "U+0319",
     "U+031A", "U+031B", "U+031C", "U+031D", "U+031E", "U+031F", "U+0320",
     "U+0321", "U+0322", "U+0323", "U+0324", "U+0325", "U+0326", "U+0327",
     "U+0328", "U+0329", "U+032A", "U+032B", "U+032C", "U+032D", "U+032E",
     "U+032F", "U+0330", "U+0331", "U+0332", "U+0333", "U+0334", "U+0335",
     "U+0336", "U+0337", "U+0338", "U+0339", "U+033A", "U+033B", "U+033C",
     "U+033D", "U+033E", "U+033F", "U+0340", "U+0341", "U+0342", "U+0343",
     "U+0344", "U+0345", "U+0346", "U+0347", "U+0348", "U+0349", "U+034A",
     "U+034B", "U+034C", "U+034D", "U+034E", "U+034F", "U+0350", "U+0351",
     "U+0352", "U+0353", "U+0354", "U+0355", "U+0356", "U+0357", "U+0358",
     "U+0359", "U+035A", "U+035B", "U+035C", "U+035D", "U+035E", "U+035F",
     "U+0360", "U+0361", "U+0362", "U+0363", "U+0364", "U+0365", "U+0366",
     "U+0367", "U+0368", "U+0369", "U+036A", "U+036B", "U+036C", "U+036D",
     "U+036E", "U+036F", "U+0374", "U+0375", "U+037A", "U+0384", "U+0385",
     "U+0387", "U+0483", "U+0484", "U+0485", "U+0486", "U+0487", "U+0488",
     "U+0489", "U+0559", "U+055F", "U+0591", "U+0592", "U+0593", "U+0594",
     "U+0595", "U+0596", "U+0597", "U+0598", "U+0599", "U+059A", "U+059B",
     "U+059C", "U+059D", "U+059E", "U+059F", "U+05A0", "U+05A1", "U+05A2",
     "U+05A3", "U+05A4", "U+05A5", "U+05A6", "U+05A7", "U+05A8", "U+05A9",
     "U+05AA", "U+05AB", "U+05AC", "U+05AD", "U+05AE", "U+05AF", "U+05B0",
     "U+05B1", "U+05B2", "U+05B3", "U+05B4", "U+05B5", "U+05B6", "U+05B7",
     "U+05B8", "U+05B9", "U+05BA", "U+05BB", "U+05BC", "U+05BD", "U+05BF",
     "U+05C1", "U+05C2", "U+05C4", "U+05C5", "U+05C7", "U+05F4", "U+0600",
     "U+0601", "U+0602", "U+0603", "U+0604", "U+0605", "U+0610", "U+0611",
     "U+0612", "U+0613", "U+0614", "U+0615", "U+0616", "U+0617", "U+0618",
     "U+0619", "U+061A", "U+061C", "U+0640", "U+064B", "U+064C", "U+064D",
     "U+064E", "U+064F", "U+0650", "U+0651", "U+0652", "U+0653", "U+0654",
     "U+0655", "U+0656", "U+0657", "U+0658", "U+0659", "U+065A", "U+065B",
     "U+065C", "U+065D", "U+065E", "U+065F", "U+0670", "U+06D6", "U+06D7",
     "U+06D8", "U+06D9", "U+06DA", "U+06DB", "U+06DC", "U+06DD", "U+06DF",
     "U+06E0", "U+06E1", "U+06E2", "U+06E3", "U+06E4", "U+06E5", "U+06E6",
     "U+06E7", "U+06E8", "U+06EA", "U+06EB", "U+06EC", "U+06ED", "U+070F",
     "U+0711", "U+0730", "U+0731", "U+0732", "U+0733", "U+0734", "U+0735",
     "U+0736", "U+0737", "U+0738", "U+0739", "U+073A", "U+073B", "U+073C",
     "U+073D", "U+073E", "U+073F", "U+0740", "U+0741", "U+0742", "U+0743",
     "U+0744", "U+0745", "U+0746", "U+0747", "U+0748", "U+0749", "U+074A",
     "U+07A6", "U+07A7", "U+07A8", "U+07A9", "U+07AA", "U+07AB", "U+07AC",
     "U+07AD", "U+07AE", "U+07AF", "U+07B0", "U+07EB", "U+07EC", "U+07ED",
     "U+07EE", "U+07EF", "U+07F0", "U+07F1", "U+07F2", "U+07F3", "U+07F4",
     "U+07F5", "U+07FA", "U+07FD", "U+0816", "U+0817", "U+0818", "U+0819",
     "U+081A", "U+081B", "U+081C", "U+081D", "U+081E", "U+081F", "U+0820",
     "U+0821", "U+0822", "U+0823", "U+0824", "U+0825", "U+0826", "U+0827",
     "U+0828", "U+0829", "U+082A", "U+082B", "U+082C", "U+082D", "U+0859",
     "U+085A", "U+085B", "U+0888", "U+0890", "U+0891", "U+0897", "U+0898",
     "U+0899", "U+089A", "U+089B", "U+089C", "U+089D", "U+089E", "U+089F",
     "U+08C9", "U+08CA", "U+08CB", "U+08CC", "U+08CD", "U+08CE", "U+08CF",
     "U+08D0", "U+08D1", "U+08D2", "U+08D3", "U+08D4", "U+08D5", "U+08D6",
     "U+08D7", "U+08D8", "U+08D9", "U+08DA", "U+08DB", "U+08DC", "U+08DD",
     "U+08DE", "U+08DF", "U+08E0", "U+08E1", "U+08E2", "U+08E3", "U+08E4",
     "U+08E5", "U+08E6", "U+08E7", "U+08E8", "U+08E9", "U+08EA", "U+08EB",
     "U+08EC", "U+08ED", "U+08EE", "U+08EF", "U+08F0", "U+08F1", "U+08F2",
     "U+08F3", "U+08F4", "U+08F5", "U+08F6", "U+08F7", "U+08F8", "U+08F9",
     "U+08FA", "U+08FB", "U+08FC", "U+08FD", "U+08FE", "U+08FF", "U+0900",
     "U+0901", "U+0902", "U+093A", "U+093C", "U+0941", "U+0942", "U+0943",
     "U+0944", "U+0945", "U+0946", "U+0947", "U+0948", "U+094D", "U+0951",
     "U+0952", "U+0953", "U+0954", "U+0955", "U+0956", "U+0957", "U+0962",
     "U+0963", "U+0971", "U+0981", "U+09BC", "U+09C1", "U+09C2", "U+09C3",
     "U+09C4", "U+09CD", "U+09E2", "U+09E3", "U+09FE", "U+0A01", "U+0A02",
     "U+0A3C", "U+0A41", "U+0A42", "U+0A47", "U+0A48", "U+0A4B", "U+0A4C",
     "U+0A4D", "U+0A51", "U+0A70", "U+0A71", "U+0A75", "U+0A81", "U+0A82",
     "U+0ABC", "U+0AC1", "U+0AC2", "U+0AC3", "U+0AC4", "U+0AC5", "U+0AC7",
     "U+0AC8", "U+0ACD", "U+0AE2", "U+0AE3", "U+0AFA", "U+0AFB", "U+0AFC",
     "U+0AFD", "U+0AFE", "U+0AFF", "U+0B01", "U+0B3C", "U+0B3F", "U+0B41",
     "U+0B42", "U+0B43", "U+0B44", "U+0B4D", "U+0B55", "U+0B56", "U+0B62",
     "U+0B63", "U+0B82", "U+0BC0", "U+0BCD", "U+0C00", "U+0C04", "U+0C3C",
     "U+0C3E", "U+0C3F", "U+0C40", "U+0C46", "U+0C47", "U+0C48", "U+0C4A",
     "U+0C4B", "U+0C4C", "U+0C4D", "U+0C55", "U+0C56", "U+0C62", "U+0C63",
     "U+0C81", "U+0CBC", "U+0CBF", "U+0CC6", "U+0CCC", "U+0CCD", "U+0CE2",
     "U+0CE3", "U+0D00", "U+0D01", "U+0D3B", "U+0D3C", "U+0D41", "U+0D42",
     "U+0D43", "U+0D44", "U+0D4D", "U+0D62", "U+0D63", "U+0D81", "U+0DCA",
     "U+0DD2", "U+0DD3", "U+0DD4", "U+0DD6", "U+0E31", "U+0E34", "U+0E35",
     "U+0E36", "U+0E37", "U+0E38", "U+0E39", "U+0E3A", "U+0E46", "U+0E47",
     "U+0E48", "U+0E49", "U+0E4A", "U+0E4B", "U+0E4C", "U+0E4D", "U+0E4E",
     "U+0EB1", "U+0EB4", "U+0EB5", "U+0EB6", "U+0EB7", "U+0EB8", "U+0EB9",
     "U+0EBA", "U+0EBB", "U+0EBC", "U+0EC6", "U+0EC8", "U+0EC9", "U+0ECA",
     "U+0ECB", "U+0ECC", "U+0ECD", "U+0ECE", "U+0F18", "U+0F19", "U+0F35",
     "U+0F37", "U+0F39", "U+0F71", "U+0F72", "U+0F73", "U+0F74", "U+0F75",
     "U+0F76", "U+0F77", "U+0F78", "U+0F79", "U+0F7A", "U+0F7B", "U+0F7C",
     "U+0F7D", "U+0F7E", "U+0F80", "U+0F81", "U+0F82", "U+0F83", "U+0F84",
     "U+0F86", "U+0F87", "U+0F8D", "U+0F8E", "U+0F8F", "U+0F90", "U+0F91",
     "U+0F92", "U+0F93", "U+0F94", "U+0F95", "U+0F96", "U+0F97", "U+0F99",
     "U+0F9A", "U+0F9B", "U+0F9C", "U+0F9D", "U+0F9E", "U+0F9F", "U+0FA0",
     "U+0FA1", "U+0FA2", "U+0FA3", "U+0FA4", "U+0FA5", "U+0FA6", "U+0FA7",
     "U+0FA8", "U+0FA9", "U+0FAA", "U+0FAB", "U+0FAC", "U+0FAD", "U+0FAE",
     "U+0FAF", "U+0FB0", "U+0FB1", "U+0FB2", "U+0FB3", "U+0FB4", "U+0FB5",
     "U+0FB6", "U+0FB7", "U+0FB8", "U+0FB9", "U+0FBA", "U+0FBB", "U+0FBC",
     "U+0FC6", "U+102D", "U+102E", "U+102F", "U+1030", "U+1032", "U+1033",
     "U+1034", "U+1035", "U+1036", "U+1037", "U+1039", "U+103A", "U+103D",
     "U+103E", "U+1058", "U+1059", "U+105E", "U+105F", "U+1060", "U+1071",
     "U+1072", "U+1073", "U+1074", "U+1082", "U+1085", "U+1086", "U+108D",
     "U+109D", "U+10FC", "U+135D", "U+135E", "U+135F", "U+1712", "U+1713",
     "U+1714", "U+1732", "U+1733", "U+1752", "U+1753", "U+1772", "U+1773",
     "U+17B4", "U+17B5", "U+17B7", "U+17B8", "U+17B9", "U+17BA", "U+17BB",
     "U+17BC", "U+17BD", "U+17C6", "U+17C9", "U+17CA", "U+17CB", "U+17CC",
     "U+17CD", "U+17CE", "U+17CF", "U+17D0", "U+17D1", "U+17D2", "U+17D3",
     "U+17D7", "U+17DD", "U+180B", "U+180C", "U+180D", "U+180E", "U+180F",
     "U+1843", "U+1885", "U+1886", "U+18A9", "U+1920", "U+1921", "U+1922",
     "U+1927", "U+1928", "U+1932", "U+1939", "U+193A", "U+193B", "U+1A17",
     "U+1A18", "U+1A1B", "U+1A56", "U+1A58", "U+1A59", "U+1A5A", "U+1A5B",
     "U+1A5C", "U+1A5D", "U+1A5E", "U+1A60", "U+1A62", "U+1A65", "U+1A66",
     "U+1A67", "U+1A68", "U+1A69", "U+1A6A", "U+1A6B", "U+1A6C", "U+1A73",
     "U+1A74", "U+1A75", "U+1A76", "U+1A77", "U+1A78", "U+1A79", "U+1A7A",
     "U+1A7B", "U+1A7C", "U+1A7F", "U+1AA7", "U+1AB0", "U+1AB1", "U+1AB2",
     "U+1AB3", "U+1AB4", "U+1AB5", "U+1AB6", "U+1AB7", "U+1AB8", "U+1AB9",
     "U+1ABA", "U+1ABB", "U+1ABC", "U+1ABD", "U+1ABE", "U+1ABF", "U+1AC0",
     "U+1AC1", "U+1AC2", "U+1AC3", "U+1AC4", "U+1AC5", "U+1AC6", "U+1AC7",
     "U+1AC8", "U+1AC9", "U+1ACA", "U+1ACB", "U+1ACC", "U+1ACD", "U+1ACE",
     "U+1ACF", "U+1AD0", "U+1AD1", "U+1AD2", "U+1AD3", "U+1AD4", "U+1AD5",
     "U+1AD6", "U+1AD7", "U+1AD8", "U+1AD9", "U+1ADA", "U+1ADB", "U+1ADC",
     "U+1ADD", "U+1AE0", "U+1AE1", "U+1AE2", "U+1AE3", "U+1AE4", "U+1AE5",
     "U+1AE6", "U+1AE7", "U+1AE8", "U+1AE9", "U+1AEA", "U+1AEB", "U+1B00",
     "U+1B01", "U+1B02", "U+1B03", "U+1B34", "U+1B36", "U+1B37", "U+1B38",
     "U+1B39", "U+1B3A", "U+1B3C", "U+1B42", "U+1B6B", "U+1B6C", "U+1B6D",
     "U+1B6E", "U+1B6F", "U+1B70", "U+1B71", "U+1B72", "U+1B73", "U+1B80",
     "U+1B81", "U+1BA2", "U+1BA3", "U+1BA4", "U+1BA5", "U+1BA8", "U+1BA9",
     "U+1BAB", "U+1BAC", "U+1BAD", "U+1BE6", "U+1BE8", "U+1BE9", "U+1BED",
     "U+1BEF", "U+1BF0", "U+1BF1", "U+1C2C", "U+1C2D", "U+1C2E", "U+1C2F",
     "U+1C30", "U+1C31", "U+1C32", "U+1C33", "U+1C36", "U+1C37", "U+1C78",
     "U+1C79", "U+1C7A", "U+1C7B", "U+1C7C", "U+1C7D", "U+1CD0", "U+1CD1",
     "U+1CD2", "U+1CD4", "U+1CD5", "U+1CD6", "U+1CD7", "U+1CD8", "U+1CD9",
     "U+1CDA", "U+1CDB", "U+1CDC", "U+1CDD", "U+1CDE", "U+1CDF", "U+1CE0",
     "U+1CE2", "U+1CE3", "U+1CE4", "U+1CE5", "U+1CE6", "U+1CE7", "U+1CE8",
     "U+1CED", "U+1CF4", "U+1CF8", "U+1CF9", "U+1D2C", "U+1D2D", "U+1D2E",
     "U+1D2F", "U+1D30", "U+1D31", "U+1D32", "U+1D33", "U+1D34", "U+1D35",
     "U+1D36", "U+1D37", "U+1D38", "U+1D39", "U+1D3A", "U+1D3B", "U+1D3C",
     "U+1D3D", "U+1D3E", "U+1D3F", "U+1D40", "U+1D41", "U+1D42", "U+1D43",
     "U+1D44", "U+1D45", "U+1D46", "U+1D47", "U+1D48", "U+1D49", "U+1D4A",
     "U+1D4B", "U+1D4C", "U+1D4D", "U+1D4E", "U+1D4F", "U+1D50", "U+1D51",
     "U+1D52", "U+1D53", "U+1D54", "U+1D55", "U+1D56", "U+1D57", "U+1D58",
     "U+1D59", "U+1D5A", "U+1D5B", "U+1D5C", "U+1D5D", "U+1D5E", "U+1D5F",
     "U+1D60", "U+1D61", "U+1D62", "U+1D63", "U+1D64", "U+1D65", "U+1D66",
     "U+1D67", "U+1D68", "U+1D69", "U+1D6A", "U+1D78", "U+1D9B", "U+1D9C",
     "U+1D9D", "U+1D9E", "U+1D9F", "U+1DA0", "U+1DA1", "U+1DA2", "U+1DA3",
     "U+1DA4", "U+1DA5", "U+1DA6", "U+1DA7", "U+1DA8", "U+1DA9", "U+1DAA",
     "U+1DAB", "U+1DAC", "U+1DAD", "U+1DAE", "U+1DAF", "U+1DB0", "U+1DB1",
     "U+1DB2", "U+1DB3", "U+1DB4", "U+1DB5", "U+1DB6", "U+1DB7", "U+1DB8",
     "U+1DB9", "U+1DBA", "U+1DBB", "U+1DBC", "U+1DBD", "U+1DBE", "U+1DBF",
     "U+1DC0", "U+1DC1", "U+1DC2", "U+1DC3", "U+1DC4", "U+1DC5", "U+1DC6",
     "U+1DC7", "U+1DC8", "U+1DC9", "U+1DCA", "U+1DCB", "U+1DCC", "U+1DCD",
     "U+1DCE", "U+1DCF", "U+1DD0", "U+1DD1", "U+1DD2", "U+1DD3", "U+1DD4",
     "U+1DD5", "U+1DD6", "U+1DD7", "U+1DD8", "U+1DD9", "U+1DDA", "U+1DDB",
     "U+1DDC", "U+1DDD", "U+1DDE", "U+1DDF", "U+1DE0", "U+1DE1", "U+1DE2",
     "U+1DE3", "U+1DE4", "U+1DE5", "U+1DE6", "U+1DE7", "U+1DE8", "U+1DE9",
     "U+1DEA", "U+1DEB", "U+1DEC", "U+1DED", "U+1DEE", "U+1DEF", "U+1DF0",
     "U+1DF1", "U+1DF2", "U+1DF3", "U+1DF4", "U+1DF5", "U+1DF6", "U+1DF7",
     "U+1DF8", "U+1DF9", "U+1DFA", "U+1DFB", "U+1DFC", "U+1DFD", "U+1DFE",
     "U+1DFF", "U+1FBD", "U+1FBF", "U+1FC0", "U+1FC1", "U+1FCD", "U+1FCE",
     "U+1FCF", "U+1FDD", "U+1FDE", "U+1FDF", "U+1FED", "U+1FEE", "U+1FEF",
     "U+1FFD", "U+1FFE", "U+200B", "U+200C", "U+200D", "U+200E", "U+200F",
     "U+2018", "U+2019", "U+2024", "U+2027", "U+202A", "U+202B", "U+202C",
     "U+202D", "U+202E", "U+2060", "U+2061", "U+2062", "U+2063", "U+2064",
     "U+2066", "U+2067", "U+2068", "U+2069", "U+206A", "U+206B", "U+206C",
     "U+206D", "U+206E", "U+206F", "U+2071", "U+207F", "U+2090", "U+2091",
     "U+2092", "U+2093", "U+2094", "U+2095", "U+2096", "U+2097", "U+2098",
     "U+2099", "U+209A", "U+209B", "U+209C", "U+20D0", "U+20D1", "U+20D2",
     "U+20D3", "U+20D4", "U+20D5", "U+20D6", "U+20D7", "U+20D8", "U+20D9",
     "U+20DA", "U+20DB", "U+20DC", "U+20DD", "U+20DE", "U+20DF", "U+20E0",
     "U+20E1", "U+20E2", "U+20E3", "U+20E4", "U+20E5", "U+20E6", "U+20E7",
     "U+20E8", "U+20E9", "U+20EA", "U+20EB", "U+20EC", "U+20ED", "U+20EE",
     "U+20EF", "U+20F0", "U+2C7C", "U+2C7D", "U+2CEF", "U+2CF0", "U+2CF1",
     "U+2D6F", "U+2D7F", "U+2DE0", "U+2DE1", "U+2DE2", "U+2DE3", "U+2DE4",
     "U+2DE5", "U+2DE6", "U+2DE7", "U+2DE8", "U+2DE9", "U+2DEA", "U+2DEB",
     "U+2DEC", "U+2DED", "U+2DEE", "U+2DEF", "U+2DF0", "U+2DF1", "U+2DF2",
     "U+2DF3", "U+2DF4", "U+2DF5", "U+2DF6", "U+2DF7", "U+2DF8", "U+2DF9",
     "U+2DFA", "U+2DFB", "U+2DFC", "U+2DFD", "U+2DFE", "U+2DFF", "U+2E2F",
     "U+3005", "U+302A", "U+302B", "U+302C", "U+302D", "U+3031", "U+3032",
     "U+3033", "U+3034", "U+3035", "U+303B", "U+3099", "U+309A", "U+309B",
     "U+309C", "U+309D", "U+309E", "U+30FC", "U+30FD", "U+30FE", "U+A015",
     "U+A4F8", "U+A4F9", "U+A4FA", "U+A4FB", "U+A4FC", "U+A4FD", "U+A60C",
     "U+A66F", "U+A670", "U+A671", "U+A672", "U+A674", "U+A675", "U+A676",
     "U+A677", "U+A678", "U+A679", "U+A67A", "U+A67B", "U+A67C", "U+A67D",
     "U+A67F", "U+A69C", "U+A69D", "U+A69E", "U+A69F", "U+A6F0", "U+A6F1",
     "U+A700", "U+A701", "U+A702", "U+A703", "U+A704", "U+A705", "U+A706",
     "U+A707", "U+A708", "U+A709", "U+A70A", "U+A70B", "U+A70C", "U+A70D",
     "U+A70E", "U+A70F", "U+A710", "U+A711", "U+A712", "U+A713", "U+A714",
     "U+A715", "U+A716", "U+A717", "U+A718", "U+A719", "U+A71A", "U+A71B",
     "U+A71C", "U+A71D", "U+A71E", "U+A71F", "U+A720", "U+A721", "U+A770",
     "U+A788", "U+A789", "U+A78A", "U+A7F1", "U+A7F2", "U+A7F3", "U+A7F4",
     "U+A7F8", "U+A7F9", "U+A802", "U+A806", "U+A80B", "U+A825", "U+A826",
     "U+A82C", "U+A8C4", "U+A8C5", "U+A8E0", "U+A8E1", "U+A8E2", "U+A8E3",
     "U+A8E4", "U+A8E5", "U+A8E6", "U+A8E7", "U+A8E8", "U+A8E9", "U+A8EA",
     "U+A8EB", "U+A8EC", "U+A8ED", "U+A8EE", "U+A8EF", "U+A8F0", "U+A8F1",
     "U+A8FF", "U+A926", "U+A927", "U+A928", "U+A929", "U+A92A", "U+A92B",
     "U+A92C", "U+A92D", "U+A947", "U+A948", "U+A949", "U+A94A", "U+A94B",
     "U+A94C", "U+A94D", "U+A94E", "U+A94F", "U+A950", "U+A951", "U+A980",
     "U+A981", "U+A982", "U+A9B3", "U+A9B6", "U+A9B7", "U+A9B8", "U+A9B9",
     "U+A9BC", "U+A9BD", "U+A9CF", "U+A9E5", "U+A9E6", "U+AA29", "U+AA2A",
     "U+AA2B", "U+AA2C", "U+AA2D", "U+AA2E", "U+AA31", "U+AA32", "U+AA35",
     "U+AA36", "U+AA43", "U+AA4C", "U+AA70", "U+AA7C", "U+AAB0", "U+AAB2",
     "U+AAB3", "U+AAB4", "U+AAB7", "U+AAB8", "U+AABE", "U+AABF", "U+AAC1",
     "U+AADD", "U+AAEC", "U+AAED", "U+AAF3", "U+AAF4", "U+AAF6", "U+AB5B",
     "U+AB5C", "U+AB5D", "U+AB5E", "U+AB5F", "U+AB69", "U+AB6A", "U+AB6B",
     "U+ABE5", "U+ABE8", "U+ABED", "U+FB1E", "U+FBB2", "U+FBB3", "U+FBB4",
     "U+FBB5", "U+FBB6", "U+FBB7", "U+FBB8", "U+FBB9", "U+FBBA", "U+FBBB",
     "U+FBBC", "U+FBBD", "U+FBBE", "U+FBBF", "U+FBC0", "U+FBC1", "U+FBC2",
     "U+FE00", "U+FE01", "U+FE02", "U+FE03", "U+FE04", "U+FE05", "U+FE06",
     "U+FE07", "U+FE08", "U+FE09", "U+FE0A", "U+FE0B", "U+FE0C", "U+FE0D",
     "U+FE0E", "U+FE0F", "U+FE13", "U+FE20", "U+FE21", "U+FE22", "U+FE23",
     "U+FE24", "U+FE25", "U+FE26", "U+FE27", "U+FE28", "U+FE29", "U+FE2A",
     "U+FE2B", "U+FE2C", "U+FE2D", "U+FE2E", "U+FE2F", "U+FE52", "U+FE55",
     "U+FEFF", "U+FF07", "U+FF0E", "U+FF1A", "U+FF3E", "U+FF40", "U+FF70",
     "U+FF9E", "U+FF9F", "U+FFE3", "U+FFF9", "U+FFFA", "U+FFFB"}

\* the low surrogates that make a case-ignorable character after a high one
CaseIgnorableLows(high) ==
    CASE high = "U+D800" -> {"U+DDFD", "U+DEE0", "U+DF76", "U+DF77", "U+DF78",
                             "U+DF79", "U+DF7A"}
      [] high = "U+D801" -> {"U+DF80", "U+DF81", "U+DF82", "U+DF83", "U+DF84",
                             "U+DF85", "U+DF87", "U+DF88", "U+DF89", "U+DF8A",
                             "U+DF8B", "U+DF8C", "U+DF8D", "U+DF8E", "U+DF8F",
                             "U+DF90", "U+DF91", "U+DF92", "U+DF93", "U+DF94",
                             "U+DF95", "U+DF96", "U+DF97", "U+DF98", "U+DF99",
                             "U+DF9A", "U+DF9B", "U+DF9C", "U+DF9D", "U+DF9E",
                             "U+DF9F", "U+DFA0", "U+DFA1", "U+DFA2", "U+DFA3",
                             "U+DFA4", "U+DFA5", "U+DFA6", "U+DFA7", "U+DFA8",
                             "U+DFA9", "U+DFAA", "U+DFAB", "U+DFAC", "U+DFAD",
                             "U+DFAE", "U+DFAF", "U+DFB0", "U+DFB2", "U+DFB3",
                             "U+DFB4", "U+DFB5", "U+DFB6", "U+DFB7", "U+DFB8",
                             "U+DFB9", "U+DFBA"}
      [] high = "U+D802" -> {"U+DE01", "U+DE02", "U+DE03", "U+DE05", "U+DE06",
                             "U+DE0C", "U+DE0D", "U+DE0E", "U+DE0F", "U+DE38",
                             "U+DE39", "U+DE3A", "U+DE3F", "U+DEE5", "U+DEE6"}
      [] high = "U+D803" -> {"U+DD24", "U+DD25", "U+DD26", "U+DD27", "U+DD4E",
                             "U+DD69", "U+DD6A", "U+DD6B", "U+DD6C", "U+DD6D",
                             "U+DD6F", "U+DEAB", "U+DEAC", "U+DEC5", "U+DEFA",
                             "U+DEFB", "U+DEFC", "U+DEFD", "U+DEFE", "U+DEFF",
                             "U+DF46", "U+DF47", "U+DF48", "U+DF49", "U+DF4A",
                             "U+DF4B", "U+DF4C", "U+DF4D", "U+DF4E", "U+DF4F",
                             "U+DF50", "U+DF82", "U+DF83", "U+DF84", "U+DF85"}
      [] high = "U+D804" -> {"U+DC01", "U+DC38", "U+DC39", "U+DC3A", "U+DC3B",
                             "U+DC3C", "U+DC3D", "U+DC3E", "U+DC3F", "U+DC40",
                             "U+DC41", "U+DC42", "U+DC43", "U+DC44", "U+DC45",
                             "U+DC46", "U+DC70", "U+DC73", "U+DC74", "U+DC7F",
                             "U+DC80", "U+DC81", "U+DCB3", "U+DCB4", "U+DCB5",
                             "U+DCB6", "U+DCB9", "U+DCBA", "U+DCBD", "U+DCC2",
                             "U+DCCD", "U+DD00", "U+DD01", "U+DD02", "U+DD27",
                             "U+DD28", "U+DD29", "U+DD2A", "U+DD2B", "U+DD2D",
                             "U+DD2E", "U+DD2F", "U+DD30", "U+DD31", "U+DD32",
                             "U+DD33", "U+DD34", "U+DD73", "U+DD80", "U+DD81",
                             "U+DDB6", "U+DDB7", "U+DDB8", "U+DDB9", "U+DDBA",
                             "U+DDBB", "U+DDBC", "U+DDBD", "U+DDBE", "U+DDC9",
                             "U+DDCA", "U+DDCB", "U+DDCC", "U+DDCF", "U+DE2F",
                             "U+DE30", "U+DE31", "U+DE34", "U+DE36", "U+DE37",
                             "U+DE3E", "U+DE41", "U+DEDF", "U+DEE3", "U+DEE4",
                             "U+DEE5", "U+DEE6", "U+DEE7", "U+DEE8", "U+DEE9",
                             "U+DEEA", "U+DF00", "U+DF01", "U+DF3B", "U+DF3C",
                             "U+DF40", "U+DF66", "U+DF67", "U+DF68", "U+DF69",
                             "U+DF6A", "U+DF6B", "U+DF6C", "U+DF70", "U+DF71",
                             "U+DF72", "U+DF73", "U+DF74", "U+DFBB", "U+DFBC",
                             "U+DFBD", "U+DFBE", "U+DFBF", "U+DFC0", "U+DFCE",
                             "U+DFD0", "U+DFD2", "U+DFE1", "U+DFE2"}
      [] high = "U+D805" -> {"U+DC38", "U+DC39", "U+DC3A", "U+DC3B", "U+DC3C",
                             "U+DC3D", "U+DC3E", "U+DC3F", "U+DC42", "U+DC43",
                             "U+DC44", "U+DC46", "U+DC5E", "U+DCB3", "U+DCB4",
                             "U+DCB5", "U+DCB6", "U+DCB7", "U+DCB8", "U+DCBA",
                             "U+DCBF", "U+DCC0", "U+DCC2", "U+DCC3", "U+DDB2",
                             "U+DDB3", "U+DDB4", "U+DDB5", "U+DDBC", "U+DDBD",
                             "U+DDBF", "U+DDC0", "U+DDDC", "U+DDDD", "U+DE33",
                             "U+DE34", "U+DE35", "U+DE36", "U+DE37", "U+DE38",
                             "U+DE39", "U+DE3A", "U+DE3D", "U+DE3F", "U+DE40",
                             "U+DEAB", "U+DEAD", "U+DEB0", "U+DEB1", "U+DEB2",
                             "U+DEB3", "U+DEB4", "U+DEB5", "U+DEB7", "U+DF1D",
                             "U+DF1F", "U+DF22", "U+DF23", "U+DF24", "U+DF25",
                             "U+DF27", "U+DF28", "U+DF29", "U+DF2A", "U+DF2B"}
      [] high = "U+D806" -> {"U+DC2F", "U+DC30", "U+DC31", "U+DC32", "U+DC33",
                             "U+DC34", "U+DC35", "U+DC36", "U+DC37", "U+DC39",
                             "U+DC3A", "U+DD3B", "U+DD3C", "U+DD3E", "U+DD43",
                             "U+DDD4", "U+DDD5", "U+DDD6", "U+DDD7", "U+DDDA",
                             "U+DDDB", "U+DDE0", "U+DE01", "U+DE02", "U+DE03",
                             "U+DE04", "U+DE05", "U+DE06", "U+DE07", "U+DE08",
                             "U+DE09", "U+DE0A", "U+DE33", "U+DE34", "U+DE35",
                             "U+DE36", "U+DE37", "U+DE38", "U+DE3B", "U+DE3C",
                             "U+DE3D", "U+DE3E", "U+DE47", "U+DE51", "U+DE52",
                             "U+DE53", "U+DE54", "U+DE55", "U+DE56", "U+DE59",
                             "U+DE5A", "U+DE5B", "U+DE8A", "U+DE8B", "U+DE8C",
                             "U+DE8D", "U+DE8E", "U+DE8F", "U+DE90", "U+DE91",
                             "U+DE92", "U+DE93", "U+DE94", "U+DE95", "U+DE96",
                             "U+DE98", "U+DE99", "U+DF60", "U+DF62", "U+DF63",
                             "U+DF64", "U+DF66"}
      [] high = "U+D807" -> {"U+DC30", "U+DC31", "U+DC32", "U+DC33", "U+DC34",
                             "U+DC35", "U+DC36", "U+DC38", "U+DC39", "U+DC3A",
                             "U+DC3B", "U+DC3C", "U+DC3D", "U+DC3F", "U+DC92",
                             "U+DC93", "U+DC94", "U+DC95", "U+DC96", "U+DC97",
                             "U+DC98", "U+DC99", "U+DC9A", "U+DC9B", "U+DC9C",
                             "U+DC9D", "U+DC9E", "U+DC9F", "U+DCA0", "U+DCA1",
                             "U+DCA2", "U+DCA3", "U+DCA4", "U+DCA5", "U+DCA6",
                             "U+DCA7", "U+DCAA", "U+DCAB", "U+DCAC", "U+DCAD",
                             "U+DCAE", "U+DCAF", "U+DCB0", "U+DCB2", "U+DCB3",
                             "U+DCB5", "U+DCB6", "U+DD31", "U+DD32", "U+DD33",
                             "U+DD34", "U+DD35", "U+DD36", "U+DD3A", "U+DD3C",
                             "U+DD3D", "U+DD3F", "U+DD40", "U+DD41", "U+DD42",
                             "U+DD43", "U+DD44", "U+DD45", "U+DD47", "U+DD90",
                             "U+DD91", "U+DD95", "U+DD97", "U+DDD9", "U+DEF3",
                             "U+DEF4", "U+DF00", "U+DF01", "U+DF36", "U+DF37",
                             "U+DF38", "U+DF39", "U+DF3A", "U+DF40", "U+DF42",
                             "U+DF5A"}
      [] high = "U+D80D" -> {"U+DC30", "U+DC31", "U+DC32", "U+DC33", "U+DC34",
                             "U+DC35", "U+DC36", "U+DC37", "U+DC38", "U+DC39",
                             "U+DC3A", "U+DC3B", "U+DC3C", "U+DC3D", "U+DC3E",
                             "U+DC3F", "U+DC40", "U+DC47", "U+DC48", "U+DC49",
                             "U+DC4A", "U+DC4B", "U+DC4C", "U+DC4D", "U+DC4E",
                             "U+DC4F", "U+DC50", "U+DC51", "U+DC52", "U+DC53",
                             "U+DC54", "U+DC55"}
      [] high = "U+D818" -> {"U+DD1E", "U+DD1F", "U+DD20", "U+DD21", "U+DD22",
                             "U+DD23", "U+DD24", "U+DD25", "U+DD26", "U+DD27",
                             "U+DD28", "U+DD29", "U+DD2D", "U+DD2E", "U+DD2F"}
      [] high = "U+D81A" -> {"U+DEF0", "U+DEF1", "U+DEF2", "U+DEF3", "U+DEF4",
                             "U+DF30", "U+DF31", "U+DF32", "U+DF33", "U+DF34",
                             "U+DF35", "U+DF36", "U+DF40", "U+DF41", "U+DF42",
                             "U+DF43"}
      [] high = "U+D81B" -> {"U+DD40", "U+DD41", "U+DD42", "U+DD6B", "U+DD6C",
                             "U+DF4F", "U+DF8F", "U+DF90", "U+DF91", "U+DF92",
                             "U+DF93", "U+DF94", "U+DF95", "U+DF96", "U+DF97",
                             "U+DF98", "U+DF99", "U+DF9A", "U+DF9B", "U+DF9C",
                             "U+DF9D", "U+DF9E", "U+DF9F", "U+DFE0", "U+DFE1",
                             "U+DFE3", "U+DFE4", "U+DFF2", "U+DFF3"}
      [] high = "U+D82B" -> {"U+DFF0", "U+DFF1", "U+DFF2", "U+DFF3", "U+DFF5",
                             "U+DFF6", "U+DFF7", "U+DFF8", "U+DFF9", "U+DFFA",
                             "U+DFFB", "U+DFFD", "U+DFFE"}
      [] high = "U+D82F" -> {"U+DC9D", "U+DC9E", "U+DCA0", "U+DCA1", "U+DCA2",
                             "U+DCA3"}
      [] high = "U+D833" -> {"U+DF00", "U+DF01", "U+DF02", "U+DF03", "U+DF04",
                             "U+DF05", "U+DF06", "U+DF07", "U+DF08", "U+DF09",
                             "U+DF0A", "U+DF0B", "U+DF0C", "U+DF0D", "U+DF0E",
                             "U+DF0F", "U+DF10", "U+DF11", "U+DF12", "U+DF13",
                             "U+DF14", "U+DF15", "U+DF16", "U+DF17", "U+DF18",
                             "U+DF19", "U+DF1A", "U+DF1B", "U+DF1C", "U+DF1D",
                             "U+DF1E", "U+DF1F", "U+DF20", "U+DF21", "U+DF22",
                             "U+DF23", "U+DF24", "U+DF25", "U+DF26", "U+DF27",
                             "U+DF28", "U+DF29", "U+DF2A", "U+DF2B", "U+DF2C",
                             "U+DF2D", "U+DF30", "U+DF31", "U+DF32", "U+DF33",
                             "U+DF34", "U+DF35", "U+DF36", "U+DF37", "U+DF38",
                             "U+DF39", "U+DF3A", "U+DF3B", "U+DF3C", "U+DF3D",
                             "U+DF3E", "U+DF3F", "U+DF40", "U+DF41", "U+DF42",
                             "U+DF43", "U+DF44", "U+DF45", "U+DF46"}
      [] high = "U+D834" -> {"U+DD67", "U+DD68", "U+DD69", "U+DD73", "U+DD74",
                             "U+DD75", "U+DD76", "U+DD77", "U+DD78", "U+DD79",
                             "U+DD7A", "U+DD7B", "U+DD7C", "U+DD7D", "U+DD7E",
                             "U+DD7F", "U+DD80", "U+DD81", "U+DD82", "U+DD85",
                             "U+DD86", "U+DD87", "U+DD88", "U+DD89", "U+DD8A",
                             "U+DD8B", "U+DDAA", "U+DDAB", "U+DDAC", "U+DDAD",
                             "U+DE42", "U+DE43", "U+DE44"}
      [] high = "U+D836" -> {"U+DE00", "U+DE01", "U+DE02", "U+DE03", "U+DE04",
                             "U+DE05", "U+DE06", "U+DE07", "U+DE08", "U+DE09",
                             "U+DE0A", "U+DE0B", "U+DE0C", "U+DE0D", "U+DE0E",
                             "U+DE0F", "U+DE10", "U+DE11", "U+DE12", "U+DE13",
                             "U+DE14", "U+DE15", "U+DE16", "U+DE17", "U+DE18",
                             "U+DE19", "U+DE1A", "U+DE1B", "U+DE1C", "U+DE1D",
                             "U+DE1E", "U+DE1F", "U+DE20", "U+DE21", "U+DE22",
                             "U+DE23", "U+DE24", "U+DE25", "U+DE26", "U+DE27",
                             "U+DE28", "U+DE29", "U+DE2A", "U+DE2B", "U+DE2C",
                             "U+DE2D", "U+DE2E", "U+DE2F", "U+DE30", "U+DE31",
                             "U+DE32", "U+DE33", "U+DE34", "U+DE35", "U+DE36",
                             "U+DE3B", "U+DE3C", "U+DE3D", "U+DE3E", "U+DE3F",
                             "U+DE40", "U+DE41", "U+DE42", "U+DE43", "U+DE44",
                             "U+DE45", "U+DE46", "U+DE47", "U+DE48", "U+DE49",
                             "U+DE4A", "U+DE4B", "U+DE4C", "U+DE4D", "U+DE4E",
                             "U+DE4F", "U+DE50", "U+DE51", "U+DE52", "U+DE53",
                             "U+DE54", "U+DE55", "U+DE56", "U+DE57", "U+DE58",
                             "U+DE59", "U+DE5A", "U+DE5B", "U+DE5C", "U+DE5D",
                             "U+DE5E", "U+DE5F", "U+DE60", "U+DE61", "U+DE62",
                             "U+DE63", "U+DE64", "U+DE65", "U+DE66", "U+DE67",
                             "U+DE68", "U+DE69", "U+DE6A", "U+DE6B", "U+DE6C",
                             "U+DE75", "U+DE84", "U+DE9B", "U+DE9C", "U+DE9D",
                             "U+DE9E", "U+DE9F", "U+DEA1", "U+DEA2", "U+DEA3",
                             "U+DEA4", "U+DEA5", "U+DEA6", "U+DEA7", "U+DEA8",
                             "U+DEA9", "U+DEAA", "U+DEAB", "U+DEAC", "U+DEAD",
                             "U+DEAE", "U+DEAF"}
      [] high = "U+D838" -> {"U+DC00", "U+DC01", "U+DC02", "U+DC03", "U+DC04",
                             "U+DC05", "U+DC06", "U+DC08", "U+DC09", "U+DC0A",
                             "U+DC0B", "U+DC0C", "U+DC0D", "U+DC0E", "U+DC0F",
                             "U+DC10", "U+DC11", "U+DC12", "U+DC13", "U+DC14",
                             "U+DC15", "U+DC16", "U+DC17", "U+DC18", "U+DC1B",
                             "U+DC1C", "U+DC1D", "U+DC1E", "U+DC1F", "U+DC20",
                             "U+DC21", "U+DC23", "U+DC24", "U+DC26", "U+DC27",
                             "U+DC28", "U+DC29", "U+DC2A", "U+DC30", "U+DC31",
                             "U+DC32", "U+DC33", "U+DC34", "U+DC35", "U+DC36",
                             "U+DC37", "U+DC38", "U+DC39", "U+DC3A", "U+DC3B",
                             "U+DC3C", "U+DC3D", "U+DC3E", "U+DC3F", "U+DC40",
                             "U+DC41", "U+DC42", "U+DC43", "U+DC44", "U+DC45",
                             "U+DC46", "U+DC47", "U+DC48", "U+DC49", "U+DC4A",
                             "U+DC4B", "U+DC4C", "U+DC4D", "U+DC4E", "U+DC4F",
                             "U+DC50", "U+DC51", "U+DC52", "U+DC53", "U+DC54",
                             "U+DC55", "U+DC56", "U+DC57", "U+DC58", "U+DC59",
                             "U+DC5A", "U+DC5B", "U+DC5C", "U+DC5D", "U+DC5E",
                             "U+DC5F", "U+DC60", "U+DC61", "U+DC62", "U+DC63",
                             "U+DC64", "U+DC65", "U+DC66", "U+DC67", "U+DC68",
                             "U+DC69", "U+DC6A", "U+DC6B", "U+DC6C", "U+DC6D",
                             "U+DC8F", "U+DD30", "U+DD31", "U+DD32", "U+DD33",
                             "U+DD34", "U+DD35", "U+DD36", "U+DD37", "U+DD38",
                             "U+DD39", "U+DD3A", "U+DD3B", "U+DD3C", "U+DD3D",
                             "U+DEAE", "U+DEEC", "U+DEED", "U+DEEE", "U+DEEF"}
      [] high = "U+D839" -> {"U+DCEB", "U+DCEC", "U+DCED", "U+DCEE", "U+DCEF",
                             "U+DDEE", "U+DDEF", "U+DEE3", "U+DEE6", "U+DEEE",
                             "U+DEEF", "U+DEF5", "U+DEFF"}
      [] high = "U+D83A" -> {"U+DCD0", "U+DCD1", "U+DCD2", "U+DCD3", "U+DCD4",
                             "U+DCD5", "U+DCD6", "U+DD44", "U+DD45", "U+DD46",
                             "U+DD47", "U+DD48", "U+DD49", "U+DD4A", "U+DD4B"}
      [] high = "U+D83C" -> {"U+DFFB", "U+DFFC", "U+DFFD", "U+DFFE", "U+DFFF"}
      [] high = "U+DB40" -> {"U+DC01", "U+DC20", "U+DC21", "U+DC22", "U+DC23",
                             "U+DC24", "U+DC25", "U+DC26", "U+DC27", "U+DC28",
                             "U+DC29", "U+DC2A", "U+DC2B", "U+DC2C", "U+DC2D",
                             "U+DC2E", "U+DC2F", "U+DC30", "U+DC31", "U+DC32",
                             "U+DC33", "U+DC34", "U+DC35", "U+DC36", "U+DC37",
                             "U+DC38", "U+DC39", "U+DC3A", "U+DC3B", "U+DC3C",
                             "U+DC3D", "U+DC3E", "U+DC3F", "U+DC40", "U+DC41",
                             "U+DC42", "U+DC43", "U+DC44", "U+DC45", "U+DC46",
                             "U+DC47", "U+DC48", "U+DC49", "U+DC4A", "U+DC4B",
                             "U+DC4C", "U+DC4D", "U+DC4E", "U+DC4F", "U+DC50",
                             "U+DC51", "U+DC52", "U+DC53", "U+DC54", "U+DC55",
                             "U+DC56", "U+DC57", "U+DC58", "U+DC59", "U+DC5A",
                             "U+DC5B", "U+DC5C", "U+DC5D", "U+DC5E", "U+DC5F",
                             "U+DC60", "U+DC61", "U+DC62", "U+DC63", "U+DC64",
                             "U+DC65", "U+DC66", "U+DC67", "U+DC68", "U+DC69",
                             "U+DC6A", "U+DC6B", "U+DC6C", "U+DC6D", "U+DC6E",
                             "U+DC6F", "U+DC70", "U+DC71", "U+DC72", "U+DC73",
                             "U+DC74", "U+DC75", "U+DC76", "U+DC77", "U+DC78",
                             "U+DC79", "U+DC7A", "U+DC7B", "U+DC7C", "U+DC7D",
                             "U+DC7E", "U+DC7F", "U+DD00", "U+DD01", "U+DD02",
                             "U+DD03", "U+DD04", "U+DD05", "U+DD06", "U+DD07",
                             "U+DD08", "U+DD09", "U+DD0A", "U+DD0B", "U+DD0C",
                             "U+DD0D", "U+DD0E", "U+DD0F", "U+DD10", "U+DD11",
                             "U+DD12", "U+DD13", "U+DD14", "U+DD15", "U+DD16",
                             "U+DD17", "U+DD18", "U+DD19", "U+DD1A", "U+DD1B",
                             "U+DD1C", "U+DD1D", "U+DD1E", "U+DD1F", "U+DD20",
                             "U+DD21", "U+DD22", "U+DD23", "U+DD24", "U+DD25",
                             "U+DD26", "U+DD27", "U+DD28", "U+DD29", "U+DD2A",
                             "U+DD2B", "U+DD2C", "U+DD2D", "U+DD2E", "U+DD2F",
                             "U+DD30", "U+DD31", "U+DD32", "U+DD33", "U+DD34",
                             "U+DD35", "U+DD36", "U+DD37", "U+DD38", "U+DD39",
                             "U+DD3A", "U+DD3B", "U+DD3C", "U+DD3D", "U+DD3E",
                             "U+DD3F", "U+DD40", "U+DD41", "U+DD42", "U+DD43",
                             "U+DD44", "U+DD45", "U+DD46", "U+DD47", "U+DD48",
                             "U+DD49", "U+DD4A", "U+DD4B", "U+DD4C", "U+DD4D",
                             "U+DD4E", "U+DD4F", "U+DD50", "U+DD51", "U+DD52",
                             "U+DD53", "U+DD54", "U+DD55", "U+DD56", "U+DD57",
                             "U+DD58", "U+DD59", "U+DD5A", "U+DD5B", "U+DD5C",
                             "U+DD5D", "U+DD5E", "U+DD5F", "U+DD60", "U+DD61",
                             "U+DD62", "U+DD63", "U+DD64", "U+DD65", "U+DD66",
                             "U+DD67", "U+DD68", "U+DD69", "U+DD6A", "U+DD6B",
                             "U+DD6C", "U+DD6D", "U+DD6E", "U+DD6F", "U+DD70",
                             "U+DD71", "U+DD72", "U+DD73", "U+DD74", "U+DD75",
                             "U+DD76", "U+DD77", "U+DD78", "U+DD79", "U+DD7A",
                             "U+DD7B", "U+DD7C", "U+DD7D", "U+DD7E", "U+DD7F",
                             "U+DD80", "U+DD81", "U+DD82", "U+DD83", "U+DD84",
                             "U+DD85", "U+DD86", "U+DD87", "U+DD88", "U+DD89",
                             "U+DD8A", "U+DD8B", "U+DD8C", "U+DD8D", "U+DD8E",
                             "U+DD8F", "U+DD90", "U+DD91", "U+DD92", "U+DD93",
                             "U+DD94", "U+DD95", "U+DD96", "U+DD97", "U+DD98",
                             "U+DD99", "U+DD9A", "U+DD9B", "U+DD9C", "U+DD9D",
                             "U+DD9E", "U+DD9F", "U+DDA0", "U+DDA1", "U+DDA2",
                             "U+DDA3", "U+DDA4", "U+DDA5", "U+DDA6", "U+DDA7",
                             "U+DDA8", "U+DDA9", "U+DDAA", "U+DDAB", "U+DDAC",
                             "U+DDAD", "U+DDAE", "U+DDAF", "U+DDB0", "U+DDB1",
                             "U+DDB2", "U+DDB3", "U+DDB4", "U+DDB5", "U+DDB6",
                             "U+DDB7", "U+DDB8", "U+DDB9", "U+DDBA", "U+DDBB",
                             "U+DDBC", "U+DDBD", "U+DDBE", "U+DDBF", "U+DDC0",
                             "U+DDC1", "U+DDC2", "U+DDC3", "U+DDC4", "U+DDC5",
                             "U+DDC6", "U+DDC7", "U+DDC8", "U+DDC9", "U+DDCA",
                             "U+DDCB", "U+DDCC", "U+DDCD", "U+DDCE", "U+DDCF",
                             "U+DDD0", "U+DDD1", "U+DDD2", "U+DDD3", "U+DDD4",
                             "U+DDD5", "U+DDD6", "U+DDD7", "U+DDD8", "U+DDD9",
                             "U+DDDA", "U+DDDB", "U+DDDC", "U+DDDD", "U+DDDE",
                             "U+DDDF", "U+DDE0", "U+DDE1", "U+DDE2", "U+DDE3",
                             "U+DDE4", "U+DDE5", "U+DDE6", "U+DDE7", "U+DDE8",
                             "U+DDE9", "U+DDEA", "U+DDEB", "U+DDEC", "U+DDED",
                             "U+DDEE", "U+DDEF"}
      [] OTHER -> {}

\* the cased characters of the Basic Multilingual Plane (Unicode 17)
Cased ==
    {"A", "B", "C", "D", "E", "F", "G", "H", "I", "J", "K", "L", "M", "N",
     "O", "P", "Q", "R", "S", "T", "U", "V", "W", "X", "Y", "Z", "a", "b",
     "c", "d", "e", "f", "g", "h", "i", "j", "k", "l", "m", "n", "o", "p",
     "q", "r", "s", "t", "u", "v", "w", "x", "y", "z", "ª", "µ", "º", "À",
     "Á", "Â", "Ã", "Ä", "Å", "Æ", "Ç", "È", "É", "Ê", "Ë", "Ì", "Í", "Î",
     "Ï", "Ð", "Ñ", "Ò", "Ó", "Ô", "Õ", "Ö", "Ø", "Ù", "Ú", "Û", "Ü", "Ý",
     "Þ", "ß", "à", "á", "â", "ã", "ä", "å", "æ", "ç", "è", "é", "ê", "ë",
     "ì", "í", "î", "ï", "ð", "ñ", "ò", "ó", "ô", "õ", "ö", "ø", "ù", "ú",
     "û", "ü", "ý", "þ", "ÿ", "U+0100", "U+0101", "U+0102", "U+0103",
     "U+0104", "U+0105", "U+0106", "U+0107", "U+0108", "U+0109", "U+010A",
     "U+010B", "U+010C", "U+010D", "U+010E", "U+010F", "U+0110", "U+0111",
     "U+0112", "U+0113", "U+0114", "U+0115", "U+0116", "U+0117", "U+0118",
     "U+0119", "U+011A", "U+011B", "U+011C", "U+011D", "U+011E", "U+011F",
     "U+0120", "U+0121", "U+0122", "U+0123", "U+0124", "U+0125", "U+0126",
     "U+0127", "U+0128", "U+0129", "U+012A", "U+012B", "U+012C", "U+012D",
     "U+012E", "U+012F", "U+0130", "U+0131", "U+0132", "U+0133", "U+0134",
     "U+0135", "U+0136", "U+0137", "U+0138", "U+0139", "U+013A", "U+013B",
     "U+013C", "U+013D", "U+013E", "U+013F", "U+0140", "U+0141", "U+0142",
     "U+0143", "U+0144", "U+0145", "U+0146", "U+0147", "U+0148", "U+0149",
     "U+014A", "U+014B", "U+014C", "U+014D", "U+014E", "U+014F", "U+0150",
     "U+0151", "U+0152", "U+0153", "U+0154", "U+0155", "U+0156", "U+0157",
     "U+0158", "U+0159", "U+015A", "U+015B", "U+015C", "U+015D", "U+015E",
     "U+015F", "U+0160", "U+0161", "U+0162", "U+0163", "U+0164", "U+0165",
     "U+0166", "U+0167", "U+0168", "U+0169", "U+016A", "U+016B", "U+016C",
     "U+016D", "U+016E", "U+016F", "U+0170", "U+0171", "U+0172", "U+0173",
     "U+0174", "U+0175", "U+0176", "U+0177", "U+0178", "U+0179", "U+017A",
     "U+017B", "U+017C", "U+017D", "U+017E", "U+017F", "U+0180", "U+0181",
     "U+0182", "U+0183", "U+0184", "U+0185", "U+0186", "U+0187", "U+0188",
     "U+0189", "U+018A", "U+018B", "U+018C", "U+018D", "U+018E", "U+018F",
     "U+0190", "U+0191", "U+0192", "U+0193", "U+0194", "U+0195", "U+0196",
     "U+0197", "U+0198", "U+0199", "U+019A", "U+019B", "U+019C", "U+019D",
     "U+019E", "U+019F", "U+01A0", "U+01A1", "U+01A2", "U+01A3", "U+01A4",
     "U+01A5", "U+01A6", "U+01A7", "U+01A8", "U+01A9", "U+01AA", "U+01AB",
     "U+01AC", "U+01AD", "U+01AE", "U+01AF", "U+01B0", "U+01B1", "U+01B2",
     "U+01B3", "U+01B4", "U+01B5", "U+01B6", "U+01B7", "U+01B8", "U+01B9",
     "U+01BA", "U+01BC", "U+01BD", "U+01BE", "U+01BF", "U+01C4", "U+01C5",
     "U+01C6", "U+01C7", "U+01C8", "U+01C9", "U+01CA", "U+01CB", "U+01CC",
     "U+01CD", "U+01CE", "U+01CF", "U+01D0", "U+01D1", "U+01D2", "U+01D3",
     "U+01D4", "U+01D5", "U+01D6", "U+01D7", "U+01D8", "U+01D9", "U+01DA",
     "U+01DB", "U+01DC", "U+01DD", "U+01DE", "U+01DF", "U+01E0", "U+01E1",
     "U+01E2", "U+01E3", "U+01E4", "U+01E5", "U+01E6", "U+01E7", "U+01E8",
     "U+01E9", "U+01EA", "U+01EB", "U+01EC", "U+01ED", "U+01EE", "U+01EF",
     "U+01F0", "U+01F1", "U+01F2", "U+01F3", "U+01F4", "U+01F5", "U+01F6",
     "U+01F7", "U+01F8", "U+01F9", "U+01FA", "U+01FB", "U+01FC", "U+01FD",
     "U+01FE", "U+01FF", "U+0200", "U+0201", "U+0202", "U+0203", "U+0204",
     "U+0205", "U+0206", "U+0207", "U+0208", "U+0209", "U+020A", "U+020B",
     "U+020C", "U+020D", "U+020E", "U+020F", "U+0210", "U+0211", "U+0212",
     "U+0213", "U+0214", "U+0215", "U+0216", "U+0217", "U+0218", "U+0219",
     "U+021A", "U+021B", "U+021C", "U+021D", "U+021E", "U+021F", "U+0220",
     "U+0221", "U+0222", "U+0223", "U+0224", "U+0225", "U+0226", "U+0227",
     "U+0228", "U+0229", "U+022A", "U+022B", "U+022C", "U+022D", "U+022E",
     "U+022F", "U+0230", "U+0231", "U+0232", "U+0233", "U+0234", "U+0235",
     "U+0236", "U+0237", "U+0238", "U+0239", "U+023A", "U+023B", "U+023C",
     "U+023D", "U+023E", "U+023F", "U+0240", "U+0241", "U+0242", "U+0243",
     "U+0244", "U+0245", "U+0246", "U+0247", "U+0248", "U+0249", "U+024A",
     "U+024B", "U+024C", "U+024D", "U+024E", "U+024F", "U+0250", "U+0251",
     "U+0252", "U+0253", "U+0254", "U+0255", "U+0256", "U+0257", "U+0258",
     "U+0259", "U+025A", "U+025B", "U+025C", "U+025D", "U+025E", "U+025F",
     "U+0260", "U+0261", "U+0262", "U+0263", "U+0264", "U+0265", "U+0266",
     "U+0267", "U+0268", "U+0269", "U+026A", "U+026B", "U+026C", "U+026D",
     "U+026E", "U+026F", "U+0270", "U+0271", "U+0272", "U+0273", "U+0274",
     "U+0275", "U+0276", "U+0277", "U+0278", "U+0279", "U+027A", "U+027B",
     "U+027C", "U+027D", "U+027E", "U+027F", "U+0280", "U+0281", "U+0282",
     "U+0283", "U+0284", "U+0285", "U+0286", "U+0287", "U+0288", "U+0289",
     "U+028A", "U+028B", "U+028C", "U+028D", "U+028E", "U+028F", "U+0290",
     "U+0291", "U+0292", "U+0293", "U+0296", "U+0297", "U+0298", "U+0299",
     "U+029A", "U+029B", "U+029C", "U+029D", "U+029E", "U+029F", "U+02A0",
     "U+02A1", "U+02A2", "U+02A3", "U+02A4", "U+02A5", "U+02A6", "U+02A7",
     "U+02A8", "U+02A9", "U+02AA", "U+02AB", "U+02AC", "U+02AD", "U+02AE",
     "U+02AF", "U+0370", "U+0371", "U+0372", "U+0373", "U+0376", "U+0377",
     "U+037B", "U+037C", "U+037D", "U+037F", "U+0386", "U+0388", "U+0389",
     "U+038A", "U+038C", "U+038E", "U+038F", "U+0390", "U+0391", "U+0392",
     "U+0393", "U+0394", "U+0395", "U+0396", "U+0397", "U+0398", "U+0399",
     "U+039A", "U+039B", "U+039C", "U+039D", "U+039E", "U+039F", "U+03A0",
     "U+03A1", "U+03A3", "U+03A4", "U+03A5", "U+03A6", "U+03A7", "U+03A8",
     "U+03A9", "U+03AA", "U+03AB", "U+03AC", "U+03AD", "U+03AE", "U+03AF",
     "U+03B0", "U+03B1", "U+03B2", "U+03B3", "U+03B4", "U+03B5", "U+03B6",
     "U+03B7", "U+03B8", "U+03B9", "U+03BA", "U+03BB", "U+03BC", "U+03BD",
     "U+03BE", "U+03BF", "U+03C0", "U+03C1", "U+03C2", "U+03C3", "U+03C4",
     "U+03C5", "U+03C6", "U+03C7", "U+03C8", "U+03C9", "U+03CA", "U+03CB",
     "U+03CC", "U+03CD", "U+03CE", "U+03CF", "U+03D0", "U+03D1", "U+03D2",
     "U+03D3", "U+03D4", "U+03D5", "U+03D6", "U+03D7", "U+03D8", "U+03D9",
     "U+03DA", "U+03DB", "U+03DC", "U+03DD", "U+03DE", "U+03DF", "U+03E0",
     "U+03E1", "U+03E2", "U+03E3", "U+03E4", "U+03E5", "U+03E6", "U+03E7",
     "U+03E8", "U+03E9", "U+03EA", "U+03EB", "U+03EC", "U+03ED", "U+03EE",
     "U+03EF", "U+03F0", "U+03F1", "U+03F2", "U+03F3", "U+03F4", "U+03F5",
     "U+03F7", "U+03F8", "U+03F9", "U+03FA", "U+03FB", "U+03FC", "U+03FD",
     "U+03FE", "U+03FF", "U+0400", "U+0401", "U+0402", "U+0403", "U+0404",
     "U+0405", "U+0406", "U+0407", "U+0408", "U+0409", "U+040A", "U+040B",
     "U+040C", "U+040D", "U+040E", "U+040F", "U+0410", "U+0411", "U+0412",
     "U+0413", "U+0414", "U+0415", "U+0416", "U+0417", "U+0418", "U+0419",
     "U+041A", "U+041B", "U+041C", "U+041D", "U+041E", "U+041F", "U+0420",
     "U+0421", "U+0422", "U+0423", "U+0424", "U+0425", "U+0426", "U+0427",
     "U+0428", "U+0429", "U+042A", "U+042B", "U+042C", "U+042D", "U+042E",
     "U+042F", "U+0430", "U+0431", "U+0432", "U+0433", "U+0434", "U+0435",
     "U+0436", "U+0437", "U+0438", "U+0439", "U+043A", "U+043B", "U+043C",
     "U+043D", "U+043E", "U+043F", "U+0440", "U+0441", "U+0442", "U+0443",
     "U+0444", "U+0445", "U+0446", "U+0447", "U+0448", "U+0449", "U+044A",
     "U+044B", "U+044C", "U+044D", "U+044E", "U+044F", "U+0450", "U+0451",
     "U+0452", "U+0453", "U+0454", "U+0455", "U+0456", "U+0457", "U+0458",
     "U+0459", "U+045A", "U+045B", "U+045C", "U+045D", "U+045E", "U+045F",
     "U+0460", "U+0461", "U+0462", "U+0463", "U+0464", "U+0465", "U+0466",
     "U+0467", "U+0468", "U+0469", "U+046A", "U+046B", "U+046C", "U+046D",
     "U+046E", "U+046F", "U+0470", "U+0471", "U+0472", "U+0473", "U+0474",
     "U+0475", "U+0476", "U+0477", "U+0478", "U+0479", "U+047A", "U+047B",
     "U+047C", "U+047D", "U+047E", "U+047F", "U+0480", "U+0481", "U+048A",
     "U+048B", "U+048C", "U+048D", "U+048E", "U+048F", "U+0490", "U+0491",
     "U+0492", "U+0493", "U+0494", "U+0495", "U+0496", "U+0497", "U+0498",
     "U+0499", "U+049A", "U+049B", "U+049C", "U+049D", "U+049E", "U+049F",
     "U+04A0", "U+04A1", "U+04A2", "U+04A3", "U+04A4", "U+04A5", "U+04A6",
     "U+04A7", "U+04A8", "U+04A9", "U+04AA", "U+04AB", "U+04AC", "U+04AD",
     "U+04AE", "U+04AF", "U+04B0", "U+04B1", "U+04B2", "U+04B3", "U+04B4",
     "U+04B5", "U+04B6", "U+04B7", "U+04B8", "U+04B9", "U+04BA", "U+04BB",
     "U+04BC", "U+04BD", "U+04BE", "U+04BF", "U+04C0", "U+04C1", "U+04C2",
     "U+04C3", "U+04C4", "U+04C5", "U+04C6", "U+04C7", "U+04C8", "U+04C9",
     "U+04CA", "U+04CB", "U+04CC", "U+04CD", "U+04CE", "U+04CF", "U+04D0",
     "U+04D1", "U+04D2", "U+04D3", "U+04D4", "U+04D5", "U+04D6", "U+04D7",
     "U+04D8", "U+04D9", "U+04DA", "U+04DB", "U+04DC", "U+04DD", "U+04DE",
     "U+04DF", "U+04E0", "U+04E1", "U+04E2", "U+04E3", "U+04E4", "U+04E5",
     "U+04E6", "U+04E7", "U+04E8", "U+04E9", "U+04EA", "U+04EB", "U+04EC",
     "U+04ED", "U+04EE", "U+04EF", "U+04F0", "U+04F1", "U+04F2", "U+04F3",
     "U+04F4", "U+04F5", "U+04F6", "U+04F7", "U+04F8", "U+04F9", "U+04FA",
     "U+04FB", "U+04FC", "U+04FD", "U+04FE", "U+04FF", "U+0500", "U+0501",
     "U+0502", "U+0503", "U+0504", "U+0505", "U+0506", "U+0507", "U+0508",
     "U+0509", "U+050A", "U+050B", "U+050C", "U+050D", "U+050E", "U+050F",
     "U+0510", "U+0511", "U+0512", "U+0513", "U+0514", "U+0515", "U+0516",
     "U+0517", "U+0518", "U+0519", "U+051A", "U+051B", "U+051C", "U+051D",
     "U+051E", "U+051F", "U+0520", "U+0521", "U+0522", "U+0523", "U+0524",
     "U+0525", "U+0526", "U+0527", "U+0528", "U+0529", "U+052A", "U+052B",
     "U+052C", "U+052D", "U+052E", "U+052F", "U+0531", "U+0532", "U+0533",
     "U+0534", "U+0535", "U+0536", "U+0537", "U+0538", "U+0539", "U+053A",
     "U+053B", "U+053C", "U+053D", "U+053E", "U+053F", "U+0540", "U+0541",
     "U+0542", "U+0543", "U+0544", "U+0545", "U+0546", "U+0547", "U+0548",
     "U+0549", "U+054A", "U+054B", "U+054C", "U+054D", "U+054E", "U+054F",
     "U+0550", "U+0551", "U+0552", "U+0553", "U+0554", "U+0555", "U+0556",
     "U+0560", "U+0561", "U+0562", "U+0563", "U+0564", "U+0565", "U+0566",
     "U+0567", "U+0568", "U+0569", "U+056A", "U+056B", "U+056C", "U+056D",
     "U+056E", "U+056F", "U+0570", "U+0571", "U+0572", "U+0573", "U+0574",
     "U+0575", "U+0576", "U+0577", "U+0578", "U+0579", "U+057A", "U+057B",
     "U+057C", "U+057D", "U+057E", "U+057F", "U+0580", "U+0581", "U+0582",
     "U+0583", "U+0584", "U+0585", "U+0586", "U+0587", "U+0588", "U+10A0",
     "U+10A1", "U+10A2", "U+10A3", "U+10A4", "U+10A5", "U+10A6", "U+10A7",
     "U+10A8", "U+10A9", "U+10AA", "U+10AB", "U+10AC", "U+10AD", "U+10AE",
     "U+10AF", "U+10B0", "U+10B1", "U+10B2", "U+10B3", "U+10B4", "U+10B5",
     "U+10B6", "U+10B7", "U+10B8", "U+10B9", "U+10BA", "U+10BB", "U+10BC",
     "U+10BD", "U+10BE", "U+10BF", "U+10C0", "U+10C1", "U+10C2", "U+10C3",
     "U+10C4", "U+10C5", "U+10C7", "U+10CD", "U+10D0", "U+10D1", "U+10D2",
     "U+10D3", "U+10D4", "U+10D5", "U+10D6", "U+10D7", "U+10D8", "U+10D9",
     "U+10DA", "U+10DB", "U+10DC", "U+10DD", "U+10DE", "U+10DF", "U+10E0",
     "U+10E1", "U+10E2", "U+10E3", "U+10E4", "U+10E5", "U+10E6", "U+10E7",
     "U+10E8", "U+10E9", "U+10EA", "U+10EB", "U+10EC", "U+10ED", "U+10EE",
     "U+10EF", "U+10F0", "U+10F1", "U+10F2", "U+10F3", "U+10F4", "U+10F5",
     "U+10F6", "U+10F7", "U+10F8", "U+10F9", "U+10FA", "U+10FD", "U+10FE",
     "U+10FF", "U+13A0", "U+13A1", "U+13A2", "U+13A3", "U+13A4", "U+13A5",
     "U+13A6", "U+13A7", "U+13A8", "U+13A9", "U+13AA", "U+13AB", "U+13AC",
     "U+13AD", "U+13AE", "U+13AF", "U+13B0", "U+13B1", "U+13B2", "U+13B3",
     "U+13B4", "U+13B5", "U+13B6", "U+13B7", "U+13B8", "U+13B9", "U+13BA",
     "U+13BB", "U+13BC", "U+13BD", "U+13BE", "U+13BF", "U+13C0", "U+13C1",
     "U+13C2", "U+13C3", "U+13C4", "U+13C5", "U+13C6", "U+13C7", "U+13C8",
     "U+13C9", "U+13CA", "U+13CB", "U+13CC", "U+13CD", "U+13CE", "U+13CF",
     "U+13D0", "U+13D1", "U+13D2", "U+13D3", "U+13D4", "U+13D5", "U+13D6",
     "U+13D7", "U+13D8", "U+13D9", "U+13DA", "U+13DB", "U+13DC", "U+13DD",
     "U+13DE", "U+13DF", "U+13E0", "U+13E1", "U+13E2", "U+13E3", "U+13E4",
     "U+13E5", "U+13E6", "U+13E7", "U+13E8", "U+13E9", "U+13EA", "U+13EB",
     "U+13EC", "U+13ED", "U+13EE", "U+13EF", "U+13F0", "U+13F1", "U+13F2",
     "U+13F3", "U+13F4", "U+13F5", "U+13F8", "U+13F9", "U+13FA", "U+13FB",
     "U+13FC", "U+13FD", "U+1C80", "U+1C81", "U+1C82", "U+1C83", "U+1C84",
     "U+1C85", "U+1C86", "U+1C87", "U+1C88", "U+1C89", "U+1C8A", "U+1C90",
     "U+1C91", "U+1C92", "U+1C93", "U+1C94", "U+1C95", "U+1C96", "U+1C97",
     "U+1C98", "U+1C99", "U+1C9A", "U+1C9B", "U+1C9C", "U+1C9D", "U+1C9E",
     "U+1C9F", "U+1CA0", "U+1CA1", "U+1CA2", "U+1CA3", "U+1CA4", "U+1CA5",
     "U+1CA6", "U+1CA7", "U+1CA8", "U+1CA9", "U+1CAA", "U+1CAB", "U+1CAC",
     "U+1CAD", "U+1CAE", "U+1CAF", "U+1CB0", "U+1CB1", "U+1CB2", "U+1CB3",
     "U+1CB4", "U+1CB5", "U+1CB6", "U+1CB7", "U+1CB8", "U+1CB9", "U+1CBA",
     "U+1CBD", "U+1CBE", "U+1CBF", "U+1D00", "U+1D01", "U+1D02", "U+1D03",
     "U+1D04", "U+1D05", "U+1D06", "U+1D07", "U+1D08", "U+1D09", "U+1D0A",
     "U+1D0B", "U+1D0C", "U+1D0D", "U+1D0E", "U+1D0F", "U+1D10", "U+1D11",
     "U+1D12", "U+1D13", "U+1D14", "U+1D15", "U+1D16", "U+1D17", "U+1D18",
     "U+1D19", "U+1D1A", "U+1D1B", "U+1D1C", "U+1D1D", "U+1D1E", "U+1D1F",
     "U+1D20", "U+1D21", "U+1D22", "U+1D23", "U+1D24", "U+1D25", "U+1D26",
     "U+1D27", "U+1D28", "U+1D29", "U+1D2A", "U+1D2B", "U+1D6B", "U+1D6C",
     "U+1D6D", "U+1D6E", "U+1D6F", "U+1D70", "U+1D71", "U+1D72", "U+1D73",
     "U+1D74", "U+1D75", "U+1D76", "U+1D77", "U+1D79", "U+1D7A", "U+1D7B",
     "U+1D7C", "U+1D7D", "U+1D7E", "U+1D7F", "U+1D80", "U+1D81", "U+1D82",
     "U+1D83", "U+1D84", "U+1D85", "U+1D86", "U+1D87", "U+1D88", "U+1D89",
     "U+1D8A", "U+1D8B", "U+1D8C", "U+1D8D", "U+1D8E", "U+1D8F", "U+1D90",
     "U+1D91", "U+1D92", "U+1D93", "U+1D94", "U+1D95", "U+1D96", "U+1D97",
     "U+1D98", "U+1D99", "U+1D9A", "U+1E00", "U+1E01", "U+1E02", "U+1E03",
     "U+1E04", "U+1E05", "U+1E06", "U+1E07", "U+1E08", "U+1E09", "U+1E0A",
     "U+1E0B", "U+1E0C", "U+1E0D", "U+1E0E", "U+1E0F", "U+1E10", "U+1E11",
     "U+1E12", "U+1E13", "U+1E14", "U+1E15", "U+1E16", "U+1E17", "U+1E18",
     "U+1E19", "U+1E1A", "U+1E1B", "U+1E1C", "U+1E1D", "U+1E1E", "U+1E1F",
     "U+1E20", "U+1E21", "U+1E22", "U+1E23", "U+1E24", "U+1E25", "U+1E26",
     "U+1E27", "U+1E28", "U+1E29", "U+1E2A", "U+1E2B", "U+1E2C", "U+1E2D",
     "U+1E2E", "U+1E2F", "U+1E30", "U+1E31", "U+1E32", "U+1E33", "U+1E34",
     "U+1E35", "U+1E36", "U+1E37", "U+1E38", "U+1E39", "U+1E3A", "U+1E3B",
     "U+1E3C", "U+1E3D", "U+1E3E", "U+1E3F", "U+1E40", "U+1E41", "U+1E42",
     "U+1E43", "U+1E44", "U+1E45", "U+1E46", "U+1E47", "U+1E48", "U+1E49",
     "U+1E4A", "U+1E4B", "U+1E4C", "U+1E4D", "U+1E4E", "U+1E4F", "U+1E50",
     "U+1E51", "U+1E52", "U+1E53", "U+1E54", "U+1E55", "U+1E56", "U+1E57",
     "U+1E58", "U+1E59", "U+1E5A", "U+1E5B", "U+1E5C", "U+1E5D", "U+1E5E",
     "U+1E5F", "U+1E60", "U+1E61", "U+1E62", "U+1E63", "U+1E64", "U+1E65",
     "U+1E66", "U+1E67", "U+1E68", "U+1E69", "U+1E6A", "U+1E6B", "U+1E6C",
     "U+1E6D", "U+1E6E", "U+1E6F", "U+1E70", "U+1E71", "U+1E72", "U+1E73",
     "U+1E74", "U+1E75", "U+1E76", "U+1E77", "U+1E78", "U+1E79", "U+1E7A",
     "U+1E7B", "U+1E7C", "U+1E7D", "U+1E7E", "U+1E7F", "U+1E80", "U+1E81",
     "U+1E82", "U+1E83", "U+1E84", "U+1E85", "U+1E86", "U+1E87", "U+1E88",
     "U+1E89", "U+1E8A", "U+1E8B", "U+1E8C", "U+1E8D", "U+1E8E", "U+1E8F",
     "U+1E90", "U+1E91", "U+1E92", "U+1E93", "U+1E94", "U+1E95", "U+1E96",
     "U+1E97", "U+1E98", "U+1E99", "U+1E9A", "U+1E9B", "U+1E9C", "U+1E9D",
     "U+1E9E", "U+1E9F", "U+1EA0", "U+1EA1", "U+1EA2", "U+1EA3", "U+1EA4",
     "U+1EA5", "U+1EA6", "U+1EA7", "U+1EA8", "U+1EA9", "U+1EAA", "U+1EAB",
     "U+1EAC", "U+1EAD", "U+1EAE", "U+1EAF", "U+1EB0", "U+1EB1", "U+1EB2",
     "U+1EB3", "U+1EB4", "U+1EB5", "U+1EB6", "U+1EB7", "U+1EB8", "U+1EB9",
     "U+1EBA", "U+1EBB", "U+1EBC", "U+1EBD", "U+1EBE", "U+1EBF", "U+1EC0",
     "U+1EC1", "U+1EC2", "U+1EC3", "U+1EC4", "U+1EC5", "U+1EC6", "U+1EC7",
     "U+1EC8", "U+1EC9", "U+1ECA", "U+1ECB", "U+1ECC", "U+1ECD", "U+1ECE",
     "U+1ECF", "U+1ED0", "U+1ED1", "U+1ED2", "U+1ED3", "U+1ED4", "U+1ED5",
     "U+1ED6", "U+1ED7", "U+1ED8", "U+1ED9", "U+1EDA", "U+1EDB", "U+1EDC",
     "U+1EDD", "U+1EDE", "U+1EDF", "U+1EE0", "U+1EE1", "U+1EE2", "U+1EE3",
     "U+1EE4", "U+1EE5", "U+1EE6", "U+1EE7", "U+1EE8", "U+1EE9", "U+1EEA",
     "U+1EEB", "U+1EEC", "U+1EED", "U+1EEE", "U+1EEF", "U+1EF0", "U+1EF1",
     "U+1EF2", "U+1EF3", "U+1EF4", "U+1EF5", "U+1EF6", "U+1EF7", "U+1EF8",
     "U+1EF9", "U+1EFA", "U+1EFB", "U+1EFC", "U+1EFD", "U+1EFE", "U+1EFF",
     "U+1F00", "U+1F01", "U+1F02", "U+1F03", "U+1F04", "U+1F05", "U+1F06",
     "U+1F07", "U+1F08", "U+1F09", "U+1F0A", "U+1F0B", "U+1F0C", "U+1F0D",
     "U+1F0E", "U+1F0F", "U+1F10", "U+1F11", "U+1F12", "U+1F13", "U+1F14",
     "U+1F15", "U+1F18", "U+1F19", "U+1F1A", "U+1F1B", "U+1F1C", "U+1F1D",
     "U+1F20", "U+1F21", "U+1F22", "U+1F23", "U+1F24", "U+1F25", "U+1F26",
     "U+1F27", "U+1F28", "U+1F29", "U+1F2A", "U+1F2B", "U+1F2C", "U+1F2D",
     "U+1F2E", "U+1F2F", "U+1F30", "U+1F31", "U+1F32", "U+1F33", "U+1F34",
     "U+1F35", "U+1F36", "U+1F37", "U+1F38", "U+1F39", "U+1F3A", "U+1F3B",
     "U+1F3C", "U+1F3D", "U+1F3E", "U+1F3F", "U+1F40", "U+1F41", "U+1F42",
     "U+1F43", "U+1F44", "U+1F45", "U+1F48", "U+1F49", "U+1F4A", "U+1F4B",
     "U+1F4C", "U+1F4D", "U+1F50", "U+1F51", "U+1F52", "U+1F53", "U+1F54",
     "U+1F55", "U+1F56", "U+1F57", "U+1F59", "U+1F5B", "U+1F5D", "U+1F5F",
     "U+1F60", "U+1F61", "U+1F62", "U+1F63", "U+1F64", "U+1F65", "U+1F66",
     "U+1F67", "U+1F68", "U+1F69", "U+1F6A", "U+1F6B", "U+1F6C", "U+1F6D",
     "U+1F6E", "U+1F6F", "U+1F70", "U+1F71", "U+1F72", "U+1F73", "U+1F74",
     "U+1F75", "U+1F76", "U+1F77", "U+1F78", "U+1F79", "U+1F7A", "U+1F7B",
     "U+1F7C", "U+1F7D", "U+1F80", "U+1F81", "U+1F82", "U+1F83", "U+1F84",
     "U+1F85", "U+1F86", "U+1F87", "U+1F88", "U+1F89", "U+1F8A", "U+1F8B",
     "U+1F8C", "U+1F8D", "U+1F8E", "U+1F8F", "U+1F90", "U+1F91", "U+1F92",
     "U+1F93", "U+1F94", "U+1F95", "U+1F96", "U+1F97", "U+1F98", "U+1F99",
     "U+1F9A", "U+1F9B", "U+1F9C", "U+1F9D", "U+1F9E", "U+1F9F", "U+1FA0",
     "U+1FA1", "U+1FA2", "U+1FA3", "U+1FA4", "U+1FA5", "U+1FA6", "U+1FA7",
     "U+1FA8", "U+1FA9", "U+1FAA", "U+1FAB", "U+1FAC", "U+1FAD", "U+1FAE",
     "U+1FAF", "U+1FB0", "U+1FB1", "U+1FB2", "U+1FB3", "U+1FB4", "U+1FB6",
     "U+1FB7", "U+1FB8", "U+1FB9", "U+1FBA", "U+1FBB", "U+1FBC", "U+1FBE",
     "U+1FC2", "U+1FC3", "U+1FC4", "U+1FC6", "U+1FC7", "U+1FC8", "U+1FC9",
     "U+1FCA", "U+1FCB", "U+1FCC", "U+1FD0", "U+1FD1", "U+1FD2", "U+1FD3",
     "U+1FD6", "U+1FD7", "U+1FD8", "U+1FD9", "U+1FDA", "U+1FDB", "U+1FE0",
     "U+1FE1", "U+1FE2", "U+1FE3", "U+1FE4", "U+1FE5", "U+1FE6", "U+1FE7",
     "U+1FE8", "U+1FE9", "U+1FEA", "U+1FEB", "U+1FEC", "U+1FF2", "U+1FF3",
     "U+1FF4", "U+1FF6", "U+1FF7", "U+1FF8", "U+1FF9", "U+1FFA", "U+1FFB",
     "U+1FFC", "U+2102", "U+2107", "U+210A", "U+210B", "U+210C", "U+210D",
     "U+210E", "U+210F", "U+2110", "U+2111", "U+2112", "U+2113", "U+2115",
     "U+2119", "U+211A", "U+211B", "U+211C", "U+211D", "U+2124", "U+2126",
     "U+2128", "U+212A", "U+212B", "U+212C", "U+212D", "U+212F", "U+2130",
     "U+2131", "U+2132", "U+2133", "U+2134", "U+2139", "U+213C", "U+213D",
     "U+213E", "U+213F", "U+2145", "U+2146", "U+2147", "U+2148", "U+2149",
     "U+214E", "U+2160", "U+2161", "U+2162", "U+2163", "U+2164", "U+2165",
     "U+2166", "U+2167", "U+2168", "U+2169", "U+216A", "U+216B", "U+216C",
     "U+216D", "U+216E", "U+216F", "U+2170", "U+2171", "U+2172", "U+2173",
     "U+2174", "U+2175", "U+2176", "U+2177", "U+2178", "U+2179", "U+217A",
     "U+217B", "U+217C", "U+217D", "U+217E", "U+217F", "U+2183", "U+2184",
     "U+24B6", "U+24B7", "U+24B8", "U+24B9", "U+24BA", "U+24BB", "U+24BC",
     "U+24BD", "U+24BE", "U+24BF", "U+24C0", "U+24C1", "U+24C2", "U+24C3",
     "U+24C4", "U+24C5", "U+24C6", "U+24C7", "U+24C8", "U+24C9", "U+24CA",
     "U+24CB", "U+24CC", "U+24CD", "U+24CE", "U+24CF", "U+24D0", "U+24D1",
     "U+24D2", "U+24D3", "U+24D4", "U+24D5", "U+24D6", "U+24D7", "U+24D8",
     "U+24D9", "U+24DA", "U+24DB", "U+24DC", "U+24DD", "U+24DE", "U+24DF",
     "U+24E0", "U+24E1", "U+24E2", "U+24E3", "U+24E4", "U+24E5", "U+24E6",
     "U+24E7", "U+24E8", "U+24E9", "U+2C00", "U+2C01", "U+2C02", "U+2C03",
     "U+2C04", "U+2C05", "U+2C06", "U+2C07", "U+2C08", "U+2C09", "U+2C0A",
     "U+2C0B", "U+2C0C", "U+2C0D", "U+2C0E", "U+2C0F", "U+2C10", "U+2C11",
     "U+2C12", "U+2C13", "U+2C14", "U+2C15", "U+2C16", "U+2C17", "U+2C18",
     "U+2C19", "U+2C1A", "U+2C1B", "U+2C1C", "U+2C1D", "U+2C1E", "U+2C1F",
     "U+2C20", "U+2C21", "U+2C22", "U+2C23", "U+2C24", "U+2C25", "U+2C26",
     "U+2C27", "U+2C28", "U+2C29", "U+2C2A", "U+2C2B", "U+2C2C", "U+2C2D",
     "U+2C2E", "U+2C2F", "U+2C30", "U+2C31", "U+2C32", "U+2C33", "U+2C34",
     "U+2C35", "U+2C36", "U+2C37", "U+2C38", "U+2C39", "U+2C3A", "U+2C3B",
     "U+2C3C", "U+2C3D", "U+2C3E", "U+2C3F", "U+2C40", "U+2C41", "U+2C42",
     "U+2C43", "U+2C44", "U+2C45", "U+2C46", "U+2C47", "U+2C48", "U+2C49",
     "U+2C4A", "U+2C4B", "U+2C4C", "U+2C4D", "U+2C4E", "U+2C4F", "U+2C50",
     "U+2C51", "U+2C52", "U+2C53", "U+2C54", "U+2C55", "U+2C56", "U+2C57",
     "U+2C58", "U+2C59", "U+2C5A", "U+2C5B", "U+2C5C", "U+2C5D", "U+2C5E",
     "U+2C5F", "U+2C60", "U+2C61", "U+2C62", "U+2C63", "U+2C64", "U+2C65",
     "U+2C66", "U+2C67", "U+2C68", "U+2C69", "U+2C6A", "U+2C6B", "U+2C6C",
     "U+2C6D", "U+2C6E", "U+2C6F", "U+2C70", "U+2C71", "U+2C72", "U+2C73",
     "U+2C74", "U+2C75", "U+2C76", "U+2C77", "U+2C78", "U+2C79", "U+2C7A",
     "U+2C7B", "U+2C7E", "U+2C7F", "U+2C80", "U+2C81", "U+2C82", "U+2C83",
     "U+2C84", "U+2C85", "U+2C86", "U+2C87", "U+2C88", "U+2C89", "U+2C8A",
     "U+2C8B", "U+2C8C", "U+2C8D", "U+2C8E", "U+2C8F", "U+2C90", "U+2C91",
     "U+2C92", "U+2C93", "U+2C94", "U+2C95", "U+2C96", "U+2C97", "U+2C98",
     "U+2C99", "U+2C9A", "U+2C9B", "U+2C9C", "U+2C9D", "U+2C9E", "U+2C9F",
     "U+2CA0", "U+2CA1", "U+2CA2", "U+2CA3", "U+2CA4", "U+2CA5", "U+2CA6",
     "U+2CA7", "U+2CA8", "U+2CA9", "U+2CAA", "U+2CAB", "U+2CAC", "U+2CAD",
     "U+2CAE", "U+2CAF", "U+2CB0", "U+2CB1", "U+2CB2", "U+2CB3", "U+2CB4",
     "U+2CB5", "U+2CB6", "U+2CB7", "U+2CB8", "U+2CB9", "U+2CBA", "U+2CBB",
     "U+2CBC", "U+2CBD", "U+2CBE", "U+2CBF", "U+2CC0", "U+2CC1", "U+2CC2",
     "U+2CC3", "U+2CC4", "U+2CC5", "U+2CC6", "U+2CC7", "U+2CC8", "U+2CC9",
     "U+2CCA", "U+2CCB", "U+2CCC", "U+2CCD", "U+2CCE", "U+2CCF", "U+2CD0",
     "U+2CD1", "U+2CD2", "U+2CD3", "U+2CD4", "U+2CD5", "U+2CD6", "U+2CD7",
     "U+2CD8", "U+2CD9", "U+2CDA", "U+2CDB", "U+2CDC", "U+2CDD", "U+2CDE",
     "U+2CDF", "U+2CE0", "U+2CE1", "U+2CE2", "U+2CE3", "U+2CE4", "U+2CEB",
     "U+2CEC", "U+2CED", "U+2CEE", "U+2CF2", "U+2CF3", "U+2D00", "U+2D01",
     "U+2D02", "U+2D03", "U+2D04", "U+2D05", "U+2D06", "U+2D07", "U+2D08",
     "U+2D09", "U+2D0A", "U+2D0B", "U+2D0C", "U+2D0D", "U+2D0E", "U+2D0F",
     "U+2D10", "U+2D11", "U+2D12", "U+2D13", "U+2D14", "U+2D15", "U+2D16",
     "U+2D17", "U+2D18", "U+2D19", "U+2D1A", "U+2D1B", "U+2D1C", "U+2D1D",
     "U+2D1E", "U+2D1F", "U+2D20", "U+2D21", "U+2D22", "U+2D23", "U+2D24",
     "U+2D25", "U+2D27", "U+2D2D", "U+A640", "U+A641", "U+A642", "U+A643",
     "U+A644", "U+A645", "U+A646", "U+A647", "U+A648", "U+A649", "U+A64A",
     "U+A64B", "U+A64C", "U+A64D", "U+A64E", "U+A64F", "U+A650", "U+A651",
     "U+A652", "U+A653", "U+A654", "U+A655", "U+A656", "U+A657", "U+A658",
     "U+A659", "U+A65A", "U+A65B", "U+A65C", "U+A65D", "U+A65E", "U+A65F",
     "U+A660", "U+A661", "U+A662", "U+A663", "U+A664", "U+A665", "U+A666",
     "U+A667", "U+A668", "U+A669", "U+A66A", "U+A66B", "U+A66C", "U+A66D",
     "U+A680", "U+A681", "U+A682", "U+A683", "U+A684", "U+A685", "U+A686",
     "U+A687", "U+A688", "U+A689", "U+A68A", "U+A68B", "U+A68C", "U+A68D",
     "U+A68E", "U+A68F", "U+A690", "U+A691", "U+A692", "U+A693", "U+A694",
     "U+A695", "U+A696", "U+A697", "U+A698", "U+A699", "U+A69A", "U+A69B",
     "U+A722", "U+A723", "U+A724", "U+A725", "U+A726", "U+A727", "U+A728",
     "U+A729", "U+A72A", "U+A72B", "U+A72C", "U+A72D", "U+A72E", "U+A72F",
     "U+A730", "U+A731", "U+A732", "U+A733", "U+A734", "U+A735", "U+A736",
     "U+A737", "U+A738", "U+A739", "U+A73A", "U+A73B", "U+A73C", "U+A73D",
     "U+A73E", "U+A73F", "U+A740", "U+A741", "U+A742", "U+A743", "U+A744",
     "U+A745", "U+A746", "U+A747", "U+A748", "U+A749", "U+A74A", "U+A74B",
     "U+A74C", "U+A74D", "U+A74E", "U+A74F", "U+A750", "U+A751", "U+A752",
     "U+A753", "U+A754", "U+A755", "U+A756", "U+A757", "U+A758", "U+A759",
     "U+A75A", "U+A75B", "U+A75C", "U+A75D", "U+A75E", "U+A75F", "U+A760",
     "U+A761", "U+A762", "U+A763", "U+A764", "U+A765", "U+A766", "U+A767",
     "U+A768", "U+A769", "U+A76A", "U+A76B", "U+A76C", "U+A76D", "U+A76E",
     "U+A76F", "U+A771", "U+A772", "U+A773", "U+A774", "U+A775", "U+A776",
     "U+A777", "U+A778", "U+A779", "U+A77A", "U+A77B", "U+A77C", "U+A77D",
     "U+A77E", "U+A77F", "U+A780", "U+A781", "U+A782", "U+A783", "U+A784",
     "U+A785", "U+A786", "U+A787", "U+A78B", "U+A78C", "U+A78D", "U+A78E",
     "U+A790", "U+A791", "U+A792", "U+A793", "U+A794", "U+A795", "U+A796",
     "U+A797", "U+A798", "U+A799", "U+A79A", "U+A79B", "U+A79C", "U+A79D",
     "U+A79E", "U+A79F", "U+A7A0", "U+A7A1", "U+A7A2", "U+A7A3", "U+A7A4",
     "U+A7A5", "U+A7A6", "U+A7A7", "U+A7A8", "U+A7A9", "U+A7AA", "U+A7AB",
     "U+A7AC", "U+A7AD", "U+A7AE", "U+A7AF", "U+A7B0", "U+A7B1", "U+A7B2",
     "U+A7B3", "U+A7B4", "U+A7B5", "U+A7B6", "U+A7B7", "U+A7B8", "U+A7B9",
     "U+A7BA", "U+A7BB", "U+A7BC", "U+A7BD", "U+A7BE", "U+A7BF", "U+A7C0",
     "U+A7C1", "U+A7C2", "U+A7C3", "U+A7C4", "U+A7C5", "U+A7C6", "U+A7C7",
     "U+A7C8", "U+A7C9", "U+A7CA", "U+A7CB", "U+A7CC", "U+A7CD", "U+A7CE",
     "U+A7CF", "U+A7D0", "U+A7D1", "U+A7D2", "U+A7D3", "U+A7D4", "U+A7D5",
     "U+A7D6", "U+A7D7", "U+A7D8", "U+A7D9", "U+A7DA", "U+A7DB", "U+A7DC",
     "U+A7F5", "U+A7F6", "U+A7FA", "U+AB30", "U+AB31", "U+AB32", "U+AB33",
     "U+AB34", "U+AB35", "U+AB36", "U+AB37", "U+AB38", "U+AB39", "U+AB3A",
     "U+AB3B", "U+AB3C", "U+AB3D", "U+AB3E", "U+AB3F", "U+AB40", "U+AB41",
     "U+AB42", "U+AB43", "U+AB44", "U+AB45", "U+AB46", "U+AB47", "U+AB48",
     "U+AB49", "U+AB4A", "U+AB4B", "U+AB4C", "U+AB4D", "U+AB4E", "U+AB4F",
     "U+AB50", "U+AB51", "U+AB52", "U+AB53", "U+AB54", "U+AB55", "U+AB56",
     "U+AB57", "U+AB58", "U+AB59", "U+AB5A", "U+AB60", "U+AB61", "U+AB62",
     "U+AB63", "U+AB64", "U+AB65", "U+AB66", "U+AB67", "U+AB68", "U+AB70",
     "U+AB71", "U+AB72", "U+AB73", "U+AB74", "U+AB75", "U+AB76", "U+AB77",
     "U+AB78", "U+AB79", "U+AB7A", "U+AB7B", "U+AB7C", "U+AB7D", "U+AB7E",
     "U+AB7F", "U+AB80", "U+AB81", "U+AB82", "U+AB83", "U+AB84", "U+AB85",
     "U+AB86", "U+AB87", "U+AB88", "U+AB89", "U+AB8A", "U+AB8B", "U+AB8C",
     "U+AB8D", "U+AB8E", "U+AB8F", "U+AB90", "U+AB91", "U+AB92", "U+AB93",
     "U+AB94", "U+AB95", "U+AB96", "U+AB97", "U+AB98", "U+AB99", "U+AB9A",
     "U+AB9B", "U+AB9C", "U+AB9D", "U+AB9E", "U+AB9F", "U+ABA0", "U+ABA1",
     "U+ABA2", "U+ABA3", "U+ABA4", "U+ABA5", "U+ABA6", "U+ABA7", "U+ABA8",
     "U+ABA9", "U+ABAA", "U+ABAB", "U+ABAC", "U+ABAD", "U+ABAE", "U+ABAF",
     "U+ABB0", "U+ABB1", "U+ABB2", "U+ABB3", "U+ABB4", "U+ABB5", "U+ABB6",
     "U+ABB7", "U+ABB8", "U+ABB9", "U+ABBA", "U+ABBB", "U+ABBC", "U+ABBD",
     "U+ABBE", "U+ABBF", "U+FB00", "U+FB01", "U+FB02", "U+FB03", "U+FB04",
     "U+FB05", "U+FB06", "U+FB13", "U+FB14", "U+FB15", "U+FB16", "U+FB17",
     "U+FF21", "U+FF22", "U+FF23", "U+FF24", "U+FF25", "U+FF26", "U+FF27",
     "U+FF28", "U+FF29", "U+FF2A", "U+FF2B", "U+FF2C", "U+FF2D", "U+FF2E",
     "U+FF2F", "U+FF30", "U+FF31", "U+FF32", "U+FF33", "U+FF34", "U+FF35",
     "U+FF36", "U+FF37", "U+FF38", "U+FF39", "U+FF3A", "U+FF41", "U+FF42",
     "U+FF43", "U+FF44", "U+FF45", "U+FF46", "U+FF47", "U+FF48", "U+FF49",
     "U+FF4A", "U+FF4B", "U+FF4C", "U+FF4D", "U+FF4E", "U+FF4F", "U+FF50",
     "U+FF51", "U+FF52", "U+FF53", "U+FF54", "U+FF55", "U+FF56", "U+FF57",
     "U+FF58", "U+FF59", "U+FF5A"}

\* the low surrogates that make a cased character after a high one
CasedLows(high) ==
    CASE high = "U+D801" -> {"U+DC00", "U+DC01", "U+DC02", "U+DC03", "U+DC04",
                             "U+DC05", "U+DC06", "U+DC07", "U+DC08", "U+DC09",
                             "U+DC0A", "U+DC0B", "U+DC0C", "U+DC0D", "U+DC0E",
                             "U+DC0F", "U+DC10", "U+DC11", "U+DC12", "U+DC13",
                             "U+DC14", "U+DC15", "U+DC16", "U+DC17", "U+DC18",
                             "U+DC19", "U+DC1A", "U+DC1B", "U+DC1C", "U+DC1D",
                             "U+DC1E", "U+DC1F", "U+DC20", "U+DC21", "U+DC22",
                             "U+DC23", "U+DC24", "U+DC25", "U+DC26", "U+DC27",
                             "U+DC28", "U+DC29", "U+DC2A", "U+DC2B", "U+DC2C",
                             "U+DC2D", "U+DC2E", "U+DC2F", "U+DC30", "U+DC31",
                             "U+DC32", "U+DC33", "U+DC34", "U+DC35", "U+DC36",
                             "U+DC37", "U+DC38", "U+DC39", "U+DC3A", "U+DC3B",
                             "U+DC3C", "U+DC3D", "U+DC3E", "U+DC3F", "U+DC40",
                             "U+DC41", "U+DC42", "U+DC43", "U+DC44", "U+DC45",
                             "U+DC46", "U+DC47", "U+DC48", "U+DC49", "U+DC4A",
                             "U+DC4B", "U+DC4C", "U+DC4D", "U+DC4E", "U+DC4F",
                             "U+DCB0", "U+DCB1", "U+DCB2", "U+DCB3", "U+DCB4",
                             "U+DCB5", "U+DCB6", "U+DCB7", "U+DCB8", "U+DCB9",
                             "U+DCBA", "U+DCBB", "U+DCBC", "U+DCBD", "U+DCBE",
                             "U+DCBF", "U+DCC0", "U+DCC1", "U+DCC2", "U+DCC3",
                             "U+DCC4", "U+DCC5", "U+DCC6", "U+DCC7", "U+DCC8",
                             "U+DCC9", "U+DCCA", "U+DCCB", "U+DCCC", "U+DCCD",
                             "U+DCCE", "U+DCCF", "U+DCD0", "U+DCD1", "U+DCD2",
                             "U+DCD3", "U+DCD8", "U+DCD9", "U+DCDA", "U+DCDB",
                             "U+DCDC", "U+DCDD", "U+DCDE", "U+DCDF", "U+DCE0",
                             "U+DCE1", "U+DCE2", "U+DCE3", "U+DCE4", "U+DCE5",
                             "U+DCE6", "U+DCE7", "U+DCE8", "U+DCE9", "U+DCEA",
                             "U+DCEB", "U+DCEC", "U+DCED", "U+DCEE", "U+DCEF",
                             "U+DCF0", "U+DCF1", "U+DCF2", "U+DCF3", "U+DCF4",
                             "U+DCF5", "U+DCF6", "U+DCF7", "U+DCF8", "U+DCF9",
                             "U+DCFA", "U+DCFB", "U+DD70", "U+DD71", "U+DD72",
                             "U+DD73", "U+DD74", "U+DD75", "U+DD76", "U+DD77",
                             "U+DD78", "U+DD79", "U+DD7A", "U+DD7C", "U+DD7D",
                             "U+DD7E", "U+DD7F", "U+DD80", "U+DD81", "U+DD82",
                             "U+DD83", "U+DD84", "U+DD85", "U+DD86", "U+DD87",
                             "U+DD88", "U+DD89", "U+DD8A", "U+DD8C", "U+DD8D",
                             "U+DD8E", "U+DD8F", "U+DD90", "U+DD91", "U+DD92",
                             "U+DD94", "U+DD95", "U+DD97", "U+DD98", "U+DD99",
                             "U+DD9A", "U+DD9B", "U+DD9C", "U+DD9D", "U+DD9E",
                             "U+DD9F", "U+DDA0", "U+DDA1", "U+DDA3", "U+DDA4",
                             "U+DDA5", "U+DDA6", "U+DDA7", "U+DDA8", "U+DDA9",
                             "U+DDAA", "U+DDAB", "U+DDAC", "U+DDAD", "U+DDAE",
                             "U+DDAF", "U+DDB0", "U+DDB1", "U+DDB3", "U+DDB4",
                             "U+DDB5", "U+DDB6", "U+DDB7", "U+DDB8", "U+DDB9",
                             "U+DDBB", "U+DDBC"}
      [] high = "U+D803" -> {"U+DC80", "U+DC81", "U+DC82", "U+DC83", "U+DC84",
                             "U+DC85", "U+DC86", "U+DC87", "U+DC88", "U+DC89",
                             "U+DC8A", "U+DC8B", "U+DC8C", "U+DC8D", "U+DC8E",
                             "U+DC8F", "U+DC90", "U+DC91", "U+DC92", "U+DC93",
                             "U+DC94", "U+DC95", "U+DC96", "U+DC97", "U+DC98",
                             "U+DC99", "U+DC9A", "U+DC9B", "U+DC9C", "U+DC9D",
                             "U+DC9E", "U+DC9F", "U+DCA0", "U+DCA1", "U+DCA2",
                             "U+DCA3", "U+DCA4", "U+DCA5", "U+DCA6", "U+DCA7",
                             "U+DCA8", "U+DCA9", "U+DCAA", "U+DCAB", "U+DCAC",
                             "U+DCAD", "U+DCAE", "U+DCAF", "U+DCB0", "U+DCB1",
                             "U+DCB2", "U+DCC0", "U+DCC1", "U+DCC2", "U+DCC3",
                             "U+DCC4", "U+DCC5", "U+DCC6", "U+DCC7", "U+DCC8",
                             "U+DCC9", "U+DCCA", "U+DCCB", "U+DCCC", "U+DCCD",
                             "U+DCCE", "U+DCCF", "U+DCD0", "U+DCD1", "U+DCD2",
                             "U+DCD3", "U+DCD4", "U+DCD5", "U+DCD6", "U+DCD7",
                             "U+DCD8", "U+DCD9", "U+DCDA", "U+DCDB", "U+DCDC",
                             "U+DCDD", "U+DCDE", "U+DCDF", "U+DCE0", "U+DCE1",
                             "U+DCE2", "U+DCE3", "U+DCE4", "U+DCE5", "U+DCE6",
                             "U+DCE7", "U+DCE8", "U+DCE9", "U+DCEA", "U+DCEB",
                             "U+DCEC", "U+DCED", "U+DCEE", "U+DCEF", "U+DCF0",
                             "U+DCF1", "U+DCF2", "U+DD50", "U+DD51", "U+DD52",
                             "U+DD53", "U+DD54", "U+DD55", "U+DD56", "U+DD57",
                             "U+DD58", "U+DD59", "U+DD5A", "U+DD5B", "U+DD5C",
                             "U+DD5D", "U+DD5E", "U+DD5F", "U+DD60", "U+DD61",
                             "U+DD62", "U+DD63", "U+DD64", "U+DD65", "U+DD70",
                             "U+DD71", "U+DD72", "U+DD73", "U+DD74", "U+DD75",
                             "U+DD76", "U+DD77", "U+DD78", "U+DD79", "U+DD7A",
                             "U+DD7B", "U+DD7C", "U+DD7D", "U+DD7E", "U+DD7F",
                             "U+DD80", "U+DD81", "U+DD82", "U+DD83", "U+DD84",
                             "U+DD85"}
      [] high = "U+D806" -> {"U+DCA0", "U+DCA1", "U+DCA2", "U+DCA3", "U+DCA4",
                             "U+DCA5", "U+DCA6", "U+DCA7", "U+DCA8", "U+DCA9",
                             "U+DCAA", "U+DCAB", "U+DCAC", "U+DCAD", "U+DCAE",
                             "U+DCAF", "U+DCB0", "U+DCB1", "U+DCB2", "U+DCB3",
                             "U+DCB4", "U+DCB5", "U+DCB6", "U+DCB7", "U+DCB8",
                             "U+DCB9", "U+DCBA", "U+DCBB", "U+DCBC", "U+DCBD",
                             "U+DCBE", "U+DCBF", "U+DCC0", "U+DCC1", "U+DCC2",
                             "U+DCC3", "U+DCC4", "U+DCC5", "U+DCC6", "U+DCC7",
                             "U+DCC8", "U+DCC9", "U+DCCA", "U+DCCB", "U+DCCC",
                             "U+DCCD", "U+DCCE", "U+DCCF", "U+DCD0", "U+DCD1",
                             "U+DCD2", "U+DCD3", "U+DCD4", "U+DCD5", "U+DCD6",
                             "U+DCD7", "U+DCD8", "U+DCD9", "U+DCDA", "U+DCDB",
                             "U+DCDC", "U+DCDD", "U+DCDE", "U+DCDF"}
      [] high = "U+D81B" -> {"U+DE40", "U+DE41", "U+DE42", "U+DE43", "U+DE44",
                             "U+DE45", "U+DE46", "U+DE47", "U+DE48", "U+DE49",
                             "U+DE4A", "U+DE4B", "U+DE4C", "U+DE4D", "U+DE4E",
                             "U+DE4F", "U+DE50", "U+DE51", "U+DE52", "U+DE53",
                             "U+DE54", "U+DE55", "U+DE56", "U+DE57", "U+DE58",
                             "U+DE59", "U+DE5A", "U+DE5B", "U+DE5C", "U+DE5D",
                             "U+DE5E", "U+DE5F", "U+DE60", "U+DE61", "U+DE62",
                             "U+DE63", "U+DE64", "U+DE65", "U+DE66", "U+DE67",
                             "U+DE68", "U+DE69", "U+DE6A", "U+DE6B", "U+DE6C",
                             "U+DE6D", "U+DE6E", "U+DE6F", "U+DE70", "U+DE71",
                             "U+DE72", "U+DE73", "U+DE74", "U+DE75", "U+DE76",
                             "U+DE77", "U+DE78", "U+DE79", "U+DE7A", "U+DE7B",
                             "U+DE7C", "U+DE7D", "U+DE7E", "U+DE7F", "U+DEA0",
                             "U+DEA1", "U+DEA2", "U+DEA3", "U+DEA4", "U+DEA5",
                             "U+DEA6", "U+DEA7", "U+DEA8", "U+DEA9", "U+DEAA",
                             "U+DEAB", "U+DEAC", "U+DEAD", "U+DEAE", "U+DEAF",
                             "U+DEB0", "U+DEB1", "U+DEB2", "U+DEB3", "U+DEB4",
                             "U+DEB5", "U+DEB6", "U+DEB7", "U+DEB8", "U+DEBB",
                             "U+DEBC", "U+DEBD", "U+DEBE", "U+DEBF", "U+DEC0",
                             "U+DEC1", "U+DEC2", "U+DEC3", "U+DEC4", "U+DEC5",
                             "U+DEC6", "U+DEC7", "U+DEC8", "U+DEC9", "U+DECA",
                             "U+DECB", "U+DECC", "U+DECD", "U+DECE", "U+DECF",
                             "U+DED0", "U+DED1", "U+DED2", "U+DED3"}
      [] high = "U+D835" -> {"U+DC00", "U+DC01", "U+DC02", "U+DC03", "U+DC04",
                             "U+DC05", "U+DC06", "U+DC07", "U+DC08", "U+DC09",
                             "U+DC0A", "U+DC0B", "U+DC0C", "U+DC0D", "U+DC0E",
                             "U+DC0F", "U+DC10", "U+DC11", "U+DC12", "U+DC13",
                             "U+DC14", "U+DC15", "U+DC16", "U+DC17", "U+DC18",
                             "U+DC19", "U+DC1A", "U+DC1B", "U+DC1C", "U+DC1D",
                             "U+DC1E", "U+DC1F", "U+DC20", "U+DC21", "U+DC22",
                             "U+DC23", "U+DC24", "U+DC25", "U+DC26", "U+DC27",
                             "U+DC28", "U+DC29", "U+DC2A", "U+DC2B", "U+DC2C",
                             "U+DC2D", "U+DC2E", "U+DC2F", "U+DC30", "U+DC31",
                             "U+DC32", "U+DC33", "U+DC34", "U+DC35", "U+DC36",
                             "U+DC37", "U+DC38", "U+DC39", "U+DC3A", "U+DC3B",
                             "U+DC3C", "U+DC3D", "U+DC3E", "U+DC3F", "U+DC40",
                             "U+DC41", "U+DC42", "U+DC43", "U+DC44", "U+DC45",
                             "U+DC46", "U+DC47", "U+DC48", "U+DC49", "U+DC4A",
                             "U+DC4B", "U+DC4C", "U+DC4D", "U+DC4E", "U+DC4F",
                             "U+DC50", "U+DC51", "U+DC52", "U+DC53", "U+DC54",
                             "U+DC56", "U+DC57", "U+DC58", "U+DC59", "U+DC5A",
                             "U+DC5B", "U+DC5C", "U+DC5D", "U+DC5E", "U+DC5F",
                             "U+DC60", "U+DC61", "U+DC62", "U+DC63", "U+DC64",
                             "U+DC65", "U+DC66", "U+DC67", "U+DC68", "U+DC69",
                             "U+DC6A", "U+DC6B", "U+DC6C", "U+DC6D", "U+DC6E",
                             "U+DC6F", "U+DC70", "U+DC71", "U+DC72", "U+DC73",
                             "U+DC74", "U+DC75", "U+DC76", "U+DC77", "U+DC78",
                             "U+DC79", "U+DC7A", "U+DC7B", "U+DC7C", "U+DC7D",
                             "U+DC7E", "U+DC7F", "U+DC80", "U+DC81", "U+DC82",
                             "U+DC83", "U+DC84", "U+DC85", "U+DC86", "U+DC87",
                             "U+DC88", "U+DC89", "U+DC8A", "U+DC8B", "U+DC8C",
                             "U+DC8D", "U+DC8E", "U+DC8F", "U+DC90", "U+DC91",
                             "U+DC92", "U+DC93", "U+DC94", "U+DC95", "U+DC96",
                             "U+DC97", "U+DC98", "U+DC99", "U+DC9A", "U+DC9B",
                             "U+DC9C", "U+DC9E", "U+DC9F", "U+DCA2", "U+DCA5",
                             "U+DCA6", "U+DCA9", "U+DCAA", "U+DCAB", "U+DCAC",
                             "U+DCAE", "U+DCAF", "U+DCB0", "U+DCB1", "U+DCB2",
                             "U+DCB3", "U+DCB4", "U+DCB5", "U+DCB6", "U+DCB7",
                             "U+DCB8", "U+DCB9", "U+DCBB", "U+DCBD", "U+DCBE",
                             "U+DCBF", "U+DCC0", "U+DCC1", "U+DCC2", "U+DCC3",
                             "U+DCC5", "U+DCC6", "U+DCC7", "U+DCC8", "U+DCC9",
                             "U+DCCA", "U+DCCB", "U+DCCC", "U+DCCD", "U+DCCE",
                             "U+DCCF", "U+DCD0", "U+DCD1", "U+DCD2", "U+DCD3",
                             "U+DCD4", "U+DCD5", "U+DCD6", "U+DCD7", "U+DCD8",
                             "U+DCD9", "U+DCDA", "U+DCDB", "U+DCDC", "U+DCDD",
                             "U+DCDE", "U+DCDF", "U+DCE0", "U+DCE1", "U+DCE2",
                             "U+DCE3", "U+DCE4", "U+DCE5", "U+DCE6", "U+DCE7",
                             "U+DCE8", "U+DCE9", "U+DCEA", "U+DCEB", "U+DCEC",
                             "U+DCED", "U+DCEE", "U+DCEF", "U+DCF0", "U+DCF1",
                             "U+DCF2", "U+DCF3", "U+DCF4", "U+DCF5", "U+DCF6",
                             "U+DCF7", "U+DCF8", "U+DCF9", "U+DCFA", "U+DCFB",
                             "U+DCFC", "U+DCFD", "U+DCFE", "U+DCFF", "U+DD00",
                             "U+DD01", "U+DD02", "U+DD03", "U+DD04", "U+DD05",
                             "U+DD07", "U+DD08", "U+DD09", "U+DD0A", "U+DD0D",
                             "U+DD0E", "U+DD0F", "U+DD10", "U+DD11", "U+DD12",
                             "U+DD13", "U+DD14", "U+DD16", "U+DD17", "U+DD18",
                             "U+DD19", "U+DD1A", "U+DD1B", "U+DD1C", "U+DD1E",
                             "U+DD1F", "U+DD20", "U+DD21", "U+DD22", "U+DD23",
                             "U+DD24", "U+DD25", "U+DD26", "U+DD27", "U+DD28",
                             "U+DD29", "U+DD2A", "U+DD2B", "U+DD2C", "U+DD2D",
                             "U+DD2E", "U+DD2F", "U+DD30", "U+DD31", "U+DD32",
                             "U+DD33", "U+DD34", "U+DD35", "U+DD36", "U+DD37",
                             "U+DD38", "U+DD39", "U+DD3B", "U+DD3C", "U+DD3D",
                             "U+DD3E", "U+DD40", "U+DD41", "U+DD42", "U+DD43",
                             "U+DD44", "U+DD46", "U+DD4A", "U+DD4B", "U+DD4C",
                             "U+DD4D", "U+DD4E", "U+DD4F", "U+DD50", "U+DD52",
                             "U+DD53", "U+DD54", "U+DD55", "U+DD56", "U+DD57",
                             "U+DD58", "U+DD59", "U+DD5A", "U+DD5B", "U+DD5C",
                             "U+DD5D", "U+DD5E", "U+DD5F", "U+DD60", "U+DD61",
                             "U+DD62", "U+DD63", "U+DD64", "U+DD65", "U+DD66",
                             "U+DD67", "U+DD68", "U+DD69", "U+DD6A", "U+DD6B",
                             "U+DD6C", "U+DD6D", "U+DD6E", "U+DD6F", "U+DD70",
                             "U+DD71", "U+DD72", "U+DD73", "U+DD74", "U+DD75",
                             "U+DD76", "U+DD77", "U+DD78", "U+DD79", "U+DD7A",
                             "U+DD7B", "U+DD7C", "U+DD7D", "U+DD7E", "U+DD7F",
                             "U+DD80", "U+DD81", "U+DD82", "U+DD83", "U+DD84",
                             "U+DD85", "U+DD86", "U+DD87", "U+DD88", "U+DD89",
                             "U+DD8A", "U+DD8B", "U+DD8C", "U+DD8D", "U+DD8E",
                             "U+DD8F", "U+DD90", "U+DD91", "U+DD92", "U+DD93",
                             "U+DD94", "U+DD95", "U+DD96", "U+DD97", "U+DD98",
                             "U+DD99", "U+DD9A", "U+DD9B", "U+DD9C", "U+DD9D",
                             "U+DD9E", "U+DD9F", "U+DDA0", "U+DDA1", "U+DDA2",
                             "U+DDA3", "U+DDA4", "U+DDA5", "U+DDA6", "U+DDA7",
                             "U+DDA8", "U+DDA9", "U+DDAA", "U+DDAB", "U+DDAC",
                             "U+DDAD", "U+DDAE", "U+DDAF", "U+DDB0", "U+DDB1",
                             "U+DDB2", "U+DDB3", "U+DDB4", "U+DDB5", "U+DDB6",
                             "U+DDB7", "U+DDB8", "U+DDB9", "U+DDBA", "U+DDBB",
                             "U+DDBC", "U+DDBD", "U+DDBE", "U+DDBF", "U+DDC0",
                             "U+DDC1", "U+DDC2", "U+DDC3", "U+DDC4", "U+DDC5",
                             "U+DDC6", "U+DDC7", "U+DDC8", "U+DDC9", "U+DDCA",
                             "U+DDCB", "U+DDCC", "U+DDCD", "U+DDCE", "U+DDCF",
                             "U+DDD0", "U+DDD1", "U+DDD2", "U+DDD3", "U+DDD4",
                             "U+DDD5", "U+DDD6", "U+DDD7", "U+DDD8", "U+DDD9",
                             "U+DDDA", "U+DDDB", "U+DDDC", "U+DDDD", "U+DDDE",
                             "U+DDDF", "U+DDE0", "U+DDE1", "U+DDE2", "U+DDE3",
                             "U+DDE4", "U+DDE5", "U+DDE6", "U+DDE7", "U+DDE8",
                             "U+DDE9", "U+DDEA", "U+DDEB", "U+DDEC", "U+DDED",
                             "U+DDEE", "U+DDEF", "U+DDF0", "U+DDF1", "U+DDF2",
                             "U+DDF3", "U+DDF4", "U+DDF5", "U+DDF6", "U+DDF7",
                             "U+DDF8", "U+DDF9", "U+DDFA", "U+DDFB", "U+DDFC",
                             "U+DDFD", "U+DDFE", "U+DDFF", "U+DE00", "U+DE01",
                             "U+DE02", "U+DE03", "U+DE04", "U+DE05", "U+DE06",
                             "U+DE07", "U+DE08", "U+DE09", "U+DE0A", "U+DE0B",
                             "U+DE0C", "U+DE0D", "U+DE0E", "U+DE0F", "U+DE10",
                             "U+DE11", "U+DE12", "U+DE13", "U+DE14", "U+DE15",
                             "U+DE16", "U+DE17", "U+DE18", "U+DE19", "U+DE1A",
                             "U+DE1B", "U+DE1C", "U+DE1D", "U+DE1E", "U+DE1F",
                             "U+DE20", "U+DE21", "U+DE22", "U+DE23", "U+DE24",
                             "U+DE25", "U+DE26", "U+DE27", "U+DE28", "U+DE29",
                             "U+DE2A", "U+DE2B", "U+DE2C", "U+DE2D", "U+DE2E",
                             "U+DE2F", "U+DE30", "U+DE31", "U+DE32", "U+DE33",
                             "U+DE34", "U+DE35", "U+DE36", "U+DE37", "U+DE38",
                             "U+DE39", "U+DE3A", "U+DE3B", "U+DE3C", "U+DE3D",
                             "U+DE3E", "U+DE3F", "U+DE40", "U+DE41", "U+DE42",
                             "U+DE43", "U+DE44", "U+DE45", "U+DE46", "U+DE47",
                             "U+DE48", "U+DE49", "U+DE4A", "U+DE4B", "U+DE4C",
                             "U+DE4D", "U+DE4E", "U+DE4F", "U+DE50", "U+DE51",
                             "U+DE52", "U+DE53", "U+DE54", "U+DE55", "U+DE56",
                             "U+DE57", "U+DE58", "U+DE59", "U+DE5A", "U+DE5B",
                             "U+DE5C", "U+DE5D", "U+DE5E", "U+DE5F", "U+DE60",
                             "U+DE61", "U+DE62", "U+DE63", "U+DE64", "U+DE65",
                             "U+DE66", "U+DE67", "U+DE68", "U+DE69", "U+DE6A",
                             "U+DE6B", "U+DE6C", "U+DE6D", "U+DE6E", "U+DE6F",
                             "U+DE70", "U+DE71", "U+DE72", "U+DE73", "U+DE74",
                             "U+DE75", "U+DE76", "U+DE77", "U+DE78", "U+DE79",
                             "U+DE7A", "U+DE7B", "U+DE7C", "U+DE7D", "U+DE7E",
                             "U+DE7F", "U+DE80", "U+DE81", "U+DE82", "U+DE83",
                             "U+DE84", "U+DE85", "U+DE86", "U+DE87", "U+DE88",
                             "U+DE89", "U+DE8A", "U+DE8B", "U+DE8C", "U+DE8D",
                             "U+DE8E", "U+DE8F", "U+DE90", "U+DE91", "U+DE92",
                             "U+DE93", "U+DE94", "U+DE95", "U+DE96", "U+DE97",
                             "U+DE98", "U+DE99", "U+DE9A", "U+DE9B", "U+DE9C",
                             "U+DE9D", "U+DE9E", "U+DE9F", "U+DEA0", "U+DEA1",
                             "U+DEA2", "U+DEA3", "U+DEA4", "U+DEA5", "U+DEA8",
                             "U+DEA9", "U+DEAA", "U+DEAB", "U+DEAC", "U+DEAD",
                             "U+DEAE", "U+DEAF", "U+DEB0", "U+DEB1", "U+DEB2",
                             "U+DEB3", "U+DEB4", "U+DEB5", "U+DEB6", "U+DEB7",
                             "U+DEB8", "U+DEB9", "U+DEBA", "U+DEBB", "U+DEBC",
                             "U+DEBD", "U+DEBE", "U+DEBF", "U+DEC0", "U+DEC2",
                             "U+DEC3", "U+DEC4", "U+DEC5", "U+DEC6", "U+DEC7",
                             "U+DEC8", "U+DEC9", "U+DECA", "U+DECB", "U+DECC",
                             "U+DECD", "U+DECE", "U+DECF", "U+DED0", "U+DED1",
                             "U+DED2", "U+DED3", "U+DED4", "U+DED5", "U+DED6",
                             "U+DED7", "U+DED8", "U+DED9", "U+DEDA", "U+DEDC",
                             "U+DEDD", "U+DEDE", "U+DEDF", "U+DEE0", "U+DEE1",
                             "U+DEE2", "U+DEE3", "U+DEE4", "U+DEE5", "U+DEE6",
                             "U+DEE7", "U+DEE8", "U+DEE9", "U+DEEA", "U+DEEB",
                             "U+DEEC", "U+DEED", "U+DEEE", "U+DEEF", "U+DEF0",
                             "U+DEF1", "U+DEF2", "U+DEF3", "U+DEF4", "U+DEF5",
                             "U+DEF6", "U+DEF7", "U+DEF8", "U+DEF9", "U+DEFA",
                             "U+DEFC", "U+DEFD", "U+DEFE", "U+DEFF", "U+DF00",
                             "U+DF01", "U+DF02", "U+DF03", "U+DF04", "U+DF05",
                             "U+DF06", "U+DF07", "U+DF08", "U+DF09", "U+DF0A",
                             "U+DF0B", "U+DF0C", "U+DF0D", "U+DF0E", "U+DF0F",
                             "U+DF10", "U+DF11", "U+DF12", "U+DF13", "U+DF14",
                             "U+DF16", "U+DF17", "U+DF18", "U+DF19", "U+DF1A",
                             "U+DF1B", "U+DF1C", "U+DF1D", "U+DF1E", "U+DF1F",
                             "U+DF20", "U+DF21", "U+DF22", "U+DF23", "U+DF24",
                             "U+DF25", "U+DF26", "U+DF27", "U+DF28", "U+DF29",
                             "U+DF2A", "U+DF2B", "U+DF2C", "U+DF2D", "U+DF2E",
                             "U+DF2F", "U+DF30", "U+DF31", "U+DF32", "U+DF33",
                             "U+DF34", "U+DF36", "U+DF37", "U+DF38", "U+DF39",
                             "U+DF3A", "U+DF3B", "U+DF3C", "U+DF3D", "U+DF3E",
                             "U+DF3F", "U+DF40", "U+DF41", "U+DF42", "U+DF43",
                             "U+DF44", "U+DF45", "U+DF46", "U+DF47", "U+DF48",
                             "U+DF49", "U+DF4A", "U+DF4B", "U+DF4C", "U+DF4D",
                             "U+DF4E", "U+DF50", "U+DF51", "U+DF52", "U+DF53",
                             "U+DF54", "U+DF55", "U+DF56", "U+DF57", "U+DF58",
                             "U+DF59", "U+DF5A", "U+DF5B", "U+DF5C", "U+DF5D",
                             "U+DF5E", "U+DF5F", "U+DF60", "U+DF61", "U+DF62",
                             "U+DF63", "U+DF64", "U+DF65", "U+DF66", "U+DF67",
                             "U+DF68", "U+DF69", "U+DF6A", "U+DF6B", "U+DF6C",
                             "U+DF6D", "U+DF6E", "U+DF70", "U+DF71", "U+DF72",
                             "U+DF73", "U+DF74", "U+DF75", "U+DF76", "U+DF77",
                             "U+DF78", "U+DF79", "U+DF7A", "U+DF7B", "U+DF7C",
                             "U+DF7D", "U+DF7E", "U+DF7F", "U+DF80", "U+DF81",
                             "U+DF82", "U+DF83", "U+DF84", "U+DF85", "U+DF86",
                             "U+DF87", "U+DF88", "U+DF8A", "U+DF8B", "U+DF8C",
                             "U+DF8D", "U+DF8E", "U+DF8F", "U+DF90", "U+DF91",
                             "U+DF92", "U+DF93", "U+DF94", "U+DF95", "U+DF96",
                             "U+DF97", "U+DF98", "U+DF99", "U+DF9A", "U+DF9B",
                             "U+DF9C", "U+DF9D", "U+DF9E", "U+DF9F", "U+DFA0",
                             "U+DFA1", "U+DFA2", "U+DFA3", "U+DFA4", "U+DFA5",
                             "U+DFA6", "U+DFA7", "U+DFA8", "U+DFAA", "U+DFAB",
                             "U+DFAC", "U+DFAD", "U+DFAE", "U+DFAF", "U+DFB0",
                             "U+DFB1", "U+DFB2", "U+DFB3", "U+DFB4", "U+DFB5",
                             "U+DFB6", "U+DFB7", "U+DFB8", "U+DFB9", "U+DFBA",
                             "U+DFBB", "U+DFBC", "U+DFBD", "U+DFBE", "U+DFBF",
                             "U+DFC0", "U+DFC1", "U+DFC2", "U+DFC4", "U+DFC5",
                             "U+DFC6", "U+DFC7", "U+DFC8", "U+DFC9", "U+DFCA",
                             "U+DFCB"}
      [] high = "U+D837" -> {"U+DF00", "U+DF01", "U+DF02", "U+DF03", "U+DF04",
                             "U+DF05", "U+DF06", "U+DF07", "U+DF08", "U+DF09",
                             "U+DF0B", "U+DF0C", "U+DF0D", "U+DF0E", "U+DF0F",
                             "U+DF10", "U+DF11", "U+DF12", "U+DF13", "U+DF14",
                             "U+DF15", "U+DF16", "U+DF17", "U+DF18", "U+DF19",
                             "U+DF1A", "U+DF1B", "U+DF1C", "U+DF1D", "U+DF1E",
                             "U+DF25", "U+DF26", "U+DF27", "U+DF28", "U+DF29",
                             "U+DF2A"}
      [] high = "U+D83A" -> {"U+DD00", "U+DD01", "U+DD02", "U+DD03", "U+DD04",
                             "U+DD05", "U+DD06", "U+DD07", "U+DD08", "U+DD09",
                             "U+DD0A", "U+DD0B", "U+DD0C", "U+DD0D", "U+DD0E",
                             "U+DD0F", "U+DD10", "U+DD11", "U+DD12", "U+DD13",
                             "U+DD14", "U+DD15", "U+DD16", "U+DD17", "U+DD18",
                             "U+DD19", "U+DD1A", "U+DD1B", "U+DD1C", "U+DD1D",
                             "U+DD1E", "U+DD1F", "U+DD20", "U+DD21", "U+DD22",
                             "U+DD23", "U+DD24", "U+DD25", "U+DD26", "U+DD27",
                             "U+DD28", "U+DD29", "U+DD2A", "U+DD2B", "U+DD2C",
                             "U+DD2D", "U+DD2E", "U+DD2F", "U+DD30", "U+DD31",
                             "U+DD32", "U+DD33", "U+DD34", "U+DD35", "U+DD36",
                             "U+DD37", "U+DD38", "U+DD39", "U+DD3A", "U+DD3B",
                             "U+DD3C", "U+DD3D", "U+DD3E", "U+DD3F", "U+DD40",
                             "U+DD41", "U+DD42", "U+DD43"}
      [] high = "U+D83C" -> {"U+DD30", "U+DD31", "U+DD32", "U+DD33", "U+DD34",
                             "U+DD35", "U+DD36", "U+DD37", "U+DD38", "U+DD39",
                             "U+DD3A", "U+DD3B", "U+DD3C", "U+DD3D", "U+DD3E",
                             "U+DD3F", "U+DD40", "U+DD41", "U+DD42", "U+DD43",
                             "U+DD44", "U+DD45", "U+DD46", "U+DD47", "U+DD48",
                             "U+DD49", "U+DD50", "U+DD51", "U+DD52", "U+DD53",
                             "U+DD54", "U+DD55", "U+DD56", "U+DD57", "U+DD58",
                             "U+DD59", "U+DD5A", "U+DD5B", "U+DD5C", "U+DD5D",
                             "U+DD5E", "U+DD5F", "U+DD60", "U+DD61", "U+DD62",
                             "U+DD63", "U+DD64", "U+DD65", "U+DD66", "U+DD67",
                             "U+DD68", "U+DD69", "U+DD70", "U+DD71", "U+DD72",
                             "U+DD73", "U+DD74", "U+DD75", "U+DD76", "U+DD77",
                             "U+DD78", "U+DD79", "U+DD7A", "U+DD7B", "U+DD7C",
                             "U+DD7D", "U+DD7E", "U+DD7F", "U+DD80", "U+DD81",
                             "U+DD82", "U+DD83", "U+DD84", "U+DD85", "U+DD86",
                             "U+DD87", "U+DD88", "U+DD89"}
      [] OTHER -> {}

\* the function that takes keys[i] to values[i]
MapOf(keys, values) ==
    [c \in {keys[i] : i \in 1..Len(keys)} |->
        values[CHOOSE i \in 1..Len(keys) : keys[i] = c]]

LatinLower == MapOf(UpperChars, LowerChars)
BeyondLower == MapOf(UpperBeyond, LowerBeyond)

\* c.toLowerCase() for a string of one code unit c, given the two case
\* mappings: the code units of the result (U+0130 becomes an i and a
\* combining dot above)
LowerIn(latin, beyond, c) ==
    IF c \in DOMAIN latin THEN <<latin[c]>>
    ELSE IF c \in DOMAIN beyond THEN <<beyond[c]>>
    ELSE IF c = "U+0130" THEN <<"i", "U+0307">>
    ELSE <<c>>

ToLowerChar(c) == LowerIn(LatinLower, BeyondLower, c)

\* the lower-case form of the surrogate pair <<high, low>>, given the low
\* surrogates of the upper-case letters with this high surrogate and of
\* their lower-case forms
LowerPairIn(uppers, lowers, high, low) ==
    IF \E i \in 1..Len(uppers) : uppers[i] = low
    THEN <<high, lowers[CHOOSE i \in 1..Len(uppers) : uppers[i] = low]>>
    ELSE <<high, low>>

ToLowerPair(high, low) == LowerPairIn(UpperLows(high), LowerLows(high), high, low)

\* what toLowerCase needs to know about position i of s: its code unit,
\* whether the code unit is case-ignorable or cased and its lower-case form,
\* and the same for the surrogate pair that starts there, if it is one that
\* is case-ignorable or cased
CaseInfo(s) ==
    [i \in 1..Len(s) |->
        [unit |-> s[i],
         lower |-> ToLowerChar(s[i]),
         ignorable |-> s[i] \in CaseIgnorable,
         cased |-> s[i] \in Cased,
         pair |-> IF i < Len(s)
                  THEN [ignorable |-> s[i + 1] \in CaseIgnorableLows(s[i]),
                        cased |-> s[i + 1] \in CasedLows(s[i]),
                        lower |-> ToLowerPair(s[i], s[i + 1])]
                  ELSE [ignorable |-> FALSE, cased |-> FALSE, lower |-> <<>>]]]

\* a case-ignorable or cased surrogate pair starts at position k
PairAt(info, k) ==
    k >= 1 /\ k <= Len(info) /\ (info[k].pair.ignorable \/ info[k].pair.cased)

\* the character that ends at position j (before = TRUE) or starts there:
\* the number of its code units and whether it is case-ignorable or cased
CharAt(info, j, before) ==
    IF PairAt(info, IF before THEN j - 1 ELSE j)
    THEN [width |-> 2,
          ignorable |-> info[IF before THEN j - 1 ELSE j].pair.ignorable,
          cased |-> info[IF before THEN j - 1 ELSE j].pair.cased]
    ELSE [width |-> 1, ignorable |-> info[j].ignorable, cased |-> info[j].cased]

\* a cased letter, then case-ignorable characters only, end at position j
RECURSIVE CasedBefore(_, _)
CasedBefore(info, j) ==
    IF j < 1 THEN FALSE
    ELSE IF CharAt(info, j, TRUE).ignorable
    THEN CasedBefore(info, j - CharAt(info, j, TRUE).width)
    ELSE CharAt(info, j, TRUE).cased

\* case-ignorable characters only, then a cased letter, start at position j
RECURSIVE CasedAfter(_, _)
CasedAfter(info, j) ==
    IF j > Len(info) THEN FALSE
    ELSE IF CharAt(info, j, FALSE).ignorable
    THEN CasedAfter(info, j + CharAt(info, j, FALSE).width)
    ELSE CharAt(info, j, FALSE).cased

\* the capital sigma at position i ends a word
FinalSigma(info, i) == CasedBefore(info, i - 1) /\ ~CasedAfter(info, i + 1)

\* the lower-cased code units from position i on
RECURSIVE LowerFrom(_, _)
LowerFrom(info, i) ==
    IF i > Len(info) THEN <<>>
    ELSE IF PairAt(info, i) THEN info[i].pair.lower \o LowerFrom(info, i + 2)
    ELSE IF info[i].unit = "U+03A3" /\ FinalSigma(info, i)
    THEN <<"U+03C2">> \o LowerFrom(info, i + 1)
    ELSE info[i].lower \o LowerFrom(info, i + 1)

\* String.prototype.toLowerCase: the Unicode default case conversion
ToLowerCase(s) == LowerFrom(CaseInfo(s), 1)


\* s.slice(from) with a 0-based index, as a 1-based suffix
Drop(s, n) == SubSeq(s, n + 1, Len(s))
Take(s, n) == SubSeq(s, 1, n)

\* 1-based index of the first / last occurrence of character c at or after
\* position from; 0 when there is none (JavaScript's -1)
IndexOfFrom(s, c, from) ==
    IF \E i \in from..Len(s) : s[i] = c
    THEN CHOOSE i \in from..Len(s) : s[i] = c /\ \A j \in from..(i - 1) : s[j] # c
    ELSE 0

LastIndexOf(s, c) ==
    IF \E i \in 1..Len(s) : s[i] = c
    THEN CHOOSE i \in 1..Len(s) : s[i] = c /\ \A j \in (i + 1)..Len(s) : s[j] # c
    ELSE 0

\* the characters the regular expression dot does not match and after which
\* ^ matches under the m flag: LF, CR, LINE SEPARATOR, PARAGRAPH SEPARATOR
LineTerminators == {"\n", "\r", "U+2028", "U+2029"}

\* Array.prototype.join
RECURSIVE Join(_, _)
Join(list, sep) ==
    IF Len(list) = 0 THEN <<>>
    ELSE IF Len(list) = 1 THEN list[1]
    ELSE list[1] \o sep \o Join(Tail(list), sep)

\* the character a regular expression with the i flag (and no u flag)
\* compares: among the characters that equal an ASCII pattern character
\* after folding are only ASCII letters of either case
FoldAscii(c) ==
    IF \E i \in 1..26 : UpperChars[i] = c
    THEN LowerChars[CHOOSE i \in 1..26 : UpperChars[i] = c]
    ELSE c

\* /^prefix/i.test(s) for a prefix of lower-case ASCII letters and signs
StartsWithCI(s, prefix) ==
    /\ Len(s) >= Len(prefix)
    /\ \A i \in 1..Len(prefix) : FoldAscii(s[i]) = prefix[i]

-----------------------------------------------------------------------------
(* transformRecipients                                                     *)

\* a plus-sign removal that does nothing
StripPlus_Keep(s) == s

\* origEmailKey.replace(/\+.*?@/, '@'): the leftmost '+' whose nearest
\* following '@' comes before any line terminator, through that '@', becomes
\* '@'
StripPlus(s) ==
    LET At(i) == IndexOfFrom(s, "@", i + 1)
        MatchesFrom(i) ==
            /\ s[i] = "+"
            /\ At(i) # 0
            /\ \A k \in (i + 1)..(At(i) - 1) : s[k] \notin LineTerminators
    IN  IF \E i \in 1..Len(s) : MatchesFrom(i)
        THEN LET plus == CHOOSE i \in 1..Len(s) :
                             MatchesFrom(i) /\ \A j \in 1..(i - 1) : ~MatchesFrom(j)
             IN  Take(s, plus - 1) \o Drop(s, At(plus) - 1)
        ELSE s

\* if (CONFIG.allowPlusSign) origEmailKey = origEmailKey.replace(/\+.*?@/, '@')
PlusSignKey(config, key) ==
    IF config.allowPlusSign THEN StripPlus(key) ELSE key

OrigEmailKey(config, origEmail) == PlusSignKey(config, ToLowerCase(origEmail))

\* CONFIG.forwardMapping.hasOwnProperty(key).  The method is looked up on the
\* mapping itself: a mapping with a key "hasOwnProperty" holds an array
\* there, and the call throws a TypeError whatever the key asked for.
HasOwnKey == <<"h","a","s","O","w","n","P","r","o","p","e","r","t","y">>
NotAFunction ==
    [type |-> "TypeError",
     value |-> "CONFIG.forwardMapping.hasOwnProperty is not a function"]
HasOwnProperty(mapping, key) ==
    IF HasOwnKey \in DOMAIN mapping
    THEN [throws |-> TRUE, value |-> FALSE]
    ELSE [throws |-> FALSE, value |-> key \in DOMAIN mapping]

\* origEmailKey.slice(pos), the empty string (as falsy as undefined) when
\* there is no "@"
OrigEmailDomain(key) ==
    IF LastIndexOf(key, "@") = 0 THEN <<>>
    ELSE Drop(key, LastIndexOf(key, "@") - 1)

\* origEmailKey.slice(0, pos), the whole key when there is no "@"
OrigEmailUser(key) ==
    IF LastIndexOf(key, "@") = 0 THEN key
    ELSE Take(key, LastIndexOf(key, "@") - 1)

\* The key of forwardMapping used for origEmailKey; NoKey (which is no
\* string) when no tier matches, KeyLookupThrows (no string either) when the
\* first lookup throws.
NoKey == <<"no", "key">>
KeyLookupThrows == <<"TypeError">>

\* a tier selection that tries the user-only key before the domain key
TierKey_UserFirst(mapping, key) ==
    IF HasOwnProperty(mapping, key).throws THEN KeyLookupThrows
    ELSE IF HasOwnProperty(mapping, key).value THEN key
    ELSE IF OrigEmailUser(key) # <<>>
            /\ HasOwnProperty(mapping, OrigEmailUser(key)).value
    THEN OrigEmailUser(key)
    ELSE IF OrigEmailDomain(key) # <<>>
            /\ HasOwnProperty(mapping, OrigEmailDomain(key)).value
    THEN OrigEmailDomain(key)
    ELSE IF HasOwnProperty(mapping, <<"@">>).value THEN <<"@">>
    ELSE NoKey

\* the if / else-if chain of the forEach body: the exact key, then the
\* domain, then the user, then "@"
TierKey(mapping, key) ==
    IF HasOwnProperty(mapping, key).throws THEN KeyLookupThrows
    ELSE IF HasOwnProperty(mapping, key).value THEN key
    ELSE IF OrigEmailDomain(key) # <<>>
            /\ HasOwnProperty(mapping, OrigEmailDomain(key)).value
    THEN OrigEmailDomain(key)
    ELSE IF OrigEmailUser(key) # <<>>
            /\ HasOwnProperty(mapping, OrigEmailUser(key)).value
    THEN OrigEmailUser(key)
    ELSE IF HasOwnProperty(mapping, <<"@">>).value THEN <<"@">>
    ELSE NoKey

\* the key of forwardMapping that the forEach body uses for origEmail
SelectKey(config, origEmail) ==
    TierKey(config.forwardMapping, OrigEmailKey(config, origEmail))

\* an iteration that keeps the first matched address as 'original'
AddRecipients_FirstMatch(config, acc, origEmail, k) ==
    IF k = KeyLookupThrows THEN [acc EXCEPT !.threw = TRUE]
    ELSE IF k = NoKey THEN acc
    ELSE [newRecipients |-> acc.newRecipients \o config.forwardMapping[k],
          original      |-> IF acc.original = <<>> THEN origEmail ELSE acc.original,
          threw         |-> FALSE]

\* newRecipients = newRecipients.concat(CONFIG.forwardMapping[k]) and
\* original = origEmail for the selected key k; threw records that the
\* iteration was left by an exception
AddRecipients(config, acc, origEmail, k) ==
    IF k = KeyLookupThrows THEN [acc EXCEPT !.threw = TRUE]
    ELSE IF k = NoKey THEN acc
    ELSE [newRecipients |-> acc.newRecipients \o config.forwardMapping[k],
          original      |-> origEmail,
          threw         |-> FALSE]

\* one iteration of originalRecipients.forEach
ForEachBody(config, acc, origEmail) ==
    AddRecipients(config, acc, origEmail, SelectKey(config, origEmail))

\* let newRecipients = [], let original = ''
NoneYet == [newRecipients |-> <<>>, original |-> <<>>, threw |-> FALSE]

\* originalRecipients.forEach: an exception ends the loop
RECURSIVE ForEach(_, _, _)
ForEach(config, acc, list) ==
    IF list = <<>> \/ acc.threw THEN acc
    ELSE ForEach(config, ForEachBody(config, acc, Head(list)), Tail(list))

\* newRecipients after the forEach
NewRecipients(config, originalRecipients) ==
    ForEach(config, NoneYet, originalRecipients).newRecipients

\* a result without the fallback to the original recipients
RecipientsResult_NoFallback(acc, originalRecipients) ==
    IF acc.threw
    THEN [throws |-> NotAFunction]
    ELSE [original |-> acc.original, recipients |-> acc.newRecipients]

\* what transformRecipients returns after a forEach that ended in acc, or
\* [throws |-> e] when the forEach threw e
RecipientsResult(acc, originalRecipients) ==
    IF acc.threw
    THEN [throws |-> NotAFunction]
    ELSE IF Len(acc.newRecipients) = 0
    THEN [original |-> acc.original, recipients |-> originalRecipients]
    ELSE [original |-> acc.original, recipients |-> acc.newRecipients]

\* the RecipientsResult returned, or [throws |-> e] when the call throws e
transformRecipients(config, originalRecipients) ==
    RecipientsResult(ForEach(config, NoneYet, originalRecipients),
                     originalRecipients)

\* the entry logged when the forEach ended in acc with no new recipient
NoneFoundLog(acc) ==
    IF ~acc.threw /\ Len(acc.newRecipients) = 0
    THEN <<[level |-> "info",
            message |-> "Finishing process. No new recipients found."]>>
    ELSE <<>>

\* what transformRecipients logs: an entry when it falls back to the original
\* recipients
NoRecipientsLog(config, originalRecipients) ==
    NoneFoundLog(ForEach(config, NoneYet, originalRecipients))

-----------------------------------------------------------------------------
(* processMessage                                                          *)

\* the characters \s matches and trim() removes: the white space and line
\* terminators of ECMAScript (tab, LF, VT, FF, CR, space, NBSP, BOM, and the
\* space separators and line terminators beyond Latin-1)
Whitespace ==
    {" ", "\t", "\n", "\r", "\f", "", " ",
     "U+FEFF", "U+1680", "U+2000", "U+2001", "U+2002", "U+2003", "U+2004",
     "U+2005", "U+2006", "U+2007", "U+2008", "U+2009", "U+200A", "U+2028",
     "U+2029", "U+202F", "U+205F", "U+3000"}

\* ^ under the m flag: the start of the input or just after a line terminator
LineStart(s, p) == p = 1 \/ s[p - 1] \in LineTerminators

\* One iteration of (?:.+\r?\n) at position q: the position after a non-empty
\* line and its LF or CRLF, 0 when there is none (the dot stops before the
\* first line terminator, which must then be LF, or CR followed by LF)
NonEmptyLineEnd(s, q) ==
    LET e == IF \E i \in q..Len(s) : s[i] \in LineTerminators
             THEN CHOOSE i \in q..Len(s) :
                      /\ s[i] \in LineTerminators
                      /\ \A j \in q..(i - 1) : s[j] \notin LineTerminators
             ELSE Len(s) + 1
    IN  IF e = q \/ e > Len(s) THEN 0
        ELSE IF s[e] = "\n" THEN e + 1
        ELSE IF s[e] = "\r" /\ e + 1 <= Len(s) /\ s[e + 1] = "\n" THEN e + 2
        ELSE 0

\* (?:.+\r?\n)* taken greedily from position q
RECURSIVE RunEnd(_, _)
RunEnd(s, q) ==
    IF NonEmptyLineEnd(s, q) = 0 THEN q ELSE RunEnd(s, NonEmptyLineEnd(s, q))

\* the length of \r?\n at position q, 0 when it does not match
BlankLen(s, q) ==
    IF q <= Len(s) /\ s[q] = "\n" THEN 1
    ELSE IF q + 1 <= Len(s) /\ s[q] = "\r" /\ s[q + 1] = "\n" THEN 2
    ELSE 0

\* /^((?:.+\r?\n)*)(\r?\n(?:.*\s+)*)/m matches at p: giving up lines of the
\* first group never helps, since a non-empty line cannot start with \r?\n
MatchesAt(s, p) == LineStart(s, p) /\ BlankLen(s, RunEnd(s, p)) > 0

\* the end of (?:.*\s+)* from position q: the last whitespace character at or
\* after q, q - 1 when there is none
BodyEnd(s, q) ==
    IF \E i \in q..Len(s) : s[i] \in Whitespace
    THEN CHOOSE i \in q..Len(s) :
             /\ s[i] \in Whitespace
             /\ \A j \in (i + 1)..Len(s) : s[j] \notin Whitespace
    ELSE q - 1

\* messageBody.match(...): [matched, g1, g2] of the leftmost match
MatchMessage(s) ==
    IF \E p \in 1..(Len(s) + 1) : MatchesAt(s, p)
    THEN LET p  == CHOOSE p \in 1..(Len(s) + 1) :
                       MatchesAt(s, p) /\ \A r \in 1..(p - 1) : ~MatchesAt(s, r)
             q  == RunEnd(s, p)
             b  == q + BlankLen(s, q)
         IN  [matched |-> TRUE,
              g1 |-> SubSeq(s, p, q - 1),
              g2 |-> SubSeq(s, q, BodyEnd(s, b))]
    ELSE [matched |-> FALSE, g1 |-> <<>>, g2 |-> <<>>]

\* let header = match && match[1] ? match[1] : messageBody
HeaderOf(s) ==
    LET m == MatchMessage(s)
    IN  IF m.matched /\ m.g1 # <<>> THEN m.g1 ELSE s

\* let body = match && match[2] ? match[2] : ''
BodyOf(s) ==
    LET m == MatchMessage(s)
    IN  IF m.matched /\ m.g2 # <<>> THEN m.g2 ELSE <<>>

\* header.split(/\r?\n/)
RECURSIVE SplitLines(_)
SplitLines(s) ==
    LET n == IndexOfFrom(s, "\n", 1)
    IN  IF n = 0 THEN <<s>>
        ELSE LET cut == IF n > 1 /\ s[n - 1] = "\r" THEN n - 2 ELSE n - 1
             IN  <<Take(s, cut)>> \o SplitLines(Drop(s, n))

\* String.prototype.trim
RECURSIVE TrimStart(_)
TrimStart(s) ==
    IF s # <<>> /\ Head(s) \in Whitespace THEN TrimStart(Tail(s)) ELSE s
RECURSIVE TrimEnd(_)
TrimEnd(s) ==
    IF s # <<>> /\ s[Len(s)] \in Whitespace THEN TrimEnd(Take(s, Len(s) - 1)) ELSE s
Trim(s) == TrimEnd(TrimStart(s))

\* header.split(/\r?\n/).filter((line) => line.trim() !== '')
HeaderLines(header) == SelectSeq(SplitLines(header), LAMBDA line : Trim(line) # <<>>)

IsReplyTo(line) == StartsWithCI(line, <<"r","e","p","l","y","-","t","o",":">>)
IsFrom(line)    == StartsWithCI(line, <<"f","r","o","m",":">>)
IsTo(line)      == StartsWithCI(line, <<"t","o",":">>)
IsSubject(line) == StartsWithCI(line, <<"s","u","b","j","e","c","t",":">>)
\* /^(return-path|sender|message-id|dkim-signature):/i
IsRemoved(line) ==
    \/ StartsWithCI(line, <<"r","e","t","u","r","n","-","p","a","t","h",":">>)
    \/ StartsWithCI(line, <<"s","e","n","d","e","r",":">>)
    \/ StartsWithCI(line, <<"m","e","s","s","a","g","e","-","i","d",":">>)
    \/ StartsWithCI(line, <<"d","k","i","m","-","s","i","g","n","a","t","u","r","e",":">>)

\* line.replace(/^name:[\t ]?(.*)/i, '$1') for a line that starts with the
\* n characters "name:": the line without the name and one optional blank
AfterName(line, n) ==
    IF Len(line) > n /\ line[n + 1] \in {"\t", " "}
    THEN Drop(line, n + 1)
    ELSE Drop(line, n)

\* the replacement text of String.prototype.replace for a pattern with one
\* capture group matched at the start of the string: $$ is a dollar sign, $&
\* the matched text, $ and a grave accent (U+0060) the text before the match
\* (empty here), $ and an apostrophe the text after it, $1 and $01 the
\* group; any other $ stands for itself
RECURSIVE Expand(_, _, _, _)
Expand(replacement, matched, group, after) ==
    IF replacement = <<>> THEN <<>>
    ELSE IF Head(replacement) # "$" \/ Len(replacement) = 1
    THEN <<Head(replacement)>> \o Expand(Tail(replacement), matched, group, after)
    ELSE IF replacement[2] = "$"
    THEN <<"$">> \o Expand(Drop(replacement, 2), matched, group, after)
    ELSE IF replacement[2] = "&"
    THEN matched \o Expand(Drop(replacement, 2), matched, group, after)
    ELSE IF replacement[2] = "U+0060"
    THEN Expand(Drop(replacement, 2), matched, group, after)
    ELSE IF replacement[2] = "'"
    THEN after \o Expand(Drop(replacement, 2), matched, group, after)
    ELSE IF replacement[2] = "1"
    THEN group \o Expand(Drop(replacement, 2), matched, group, after)
    ELSE IF replacement[2] = "0" /\ Len(replacement) >= 3 /\ replacement[3] = "1"
    THEN group \o Expand(Drop(replacement, 3), matched, group, after)
    ELSE <<"$">> \o Expand(Tail(replacement), matched, group, after)

\* line.replace(/^subject:[\t ]?(.*)/i, `Subject: ${CONFIG.subjectPrefix}$1`)
\* for a line that starts with "subject:": the match runs to the first line
\* terminator of the line, and the prefix is part of the replacement pattern
SubjectLine(config, line) ==
    LET e == IF \E i \in 1..Len(line) : line[i] \in LineTerminators
             THEN CHOOSE i \in 1..Len(line) :
                      /\ line[i] \in LineTerminators
                      /\ \A j \in 1..(i - 1) : line[j] \notin LineTerminators
             ELSE Len(line) + 1
        matched == Take(line, e - 1)
        after == Drop(line, e - 1)
    IN  Expand(<<"S","u","b","j","e","c","t",":"," ">> \o config.subjectPrefix
                   \o <<"$","1">>,
               matched, AfterName(matched, 8), after) \o after

\* s.replace(/<(.*)>/, ''): the leftmost '<' that has a '>' after it on the
\* same line, through the last such '>', is removed
RemoveAngle(s) ==
    LET Closes(i, j) == /\ s[j] = ">"
                        /\ \A k \in (i + 1)..(j - 1) : s[k] \notin LineTerminators
        Opens(i) == s[i] = "<" /\ \E j \in (i + 1)..Len(s) : Closes(i, j)
    IN  IF \E i \in 1..Len(s) : Opens(i)
        THEN LET i == CHOOSE i \in 1..Len(s) :
                          Opens(i) /\ \A k \in 1..(i - 1) : ~Opens(k)
                 j == CHOOSE j \in (i + 1)..Len(s) :
                          Closes(i, j) /\ \A k \in (j + 1)..Len(s) : ~Closes(i, k)
             IN  Take(s, i - 1) \o Drop(s, j)
        ELSE s

\* s.replace(c, r) with a string pattern: the first occurrence only
ReplaceFirst(s, c, r) ==
    LET i == IndexOfFrom(s, c, 1)
    IN  IF i = 0 THEN s ELSE Take(s, i - 1) \o r \o Drop(s, i)

\* the rewritten From header of the `else if (/^from:/i.test(line))` branch
NewFrom(config, originalRecipient, fromAddress) ==
    IF config.fromEmail # <<>>
    THEN <<"F","r","o","m",":"," ">> \o Trim(RemoveAngle(fromAddress))
             \o <<" ","<">> \o config.fromEmail \o <<">">>
    ELSE <<"F","r","o","m",":"," ">>
             \o ReplaceFirst(ReplaceFirst(fromAddress, "<", <<"a","t"," ">>), ">", <<>>)
             \o <<" ","<">> \o originalRecipient \o <<">">>

\* an iteration that puts a rewritten From header in front of the others
ProcessLine_FromFirst(config, originalRecipient, updatedRecipients, st, line) ==
    IF IsReplyTo(line)
    THEN [st EXCEPT !.hasReplyTo = TRUE,
                    !.updatedHeaders = Append(@, line)]
    ELSE IF IsFrom(line)
    THEN [st EXCEPT !.fromAddress = AfterName(line, 5),
                    !.updatedHeaders =
                        <<NewFrom(config, originalRecipient, AfterName(line, 5))>> \o @]
    ELSE IF IsTo(line)
    THEN [st EXCEPT !.updatedHeaders =
                        Append(@, <<"T","o",":"," ">> \o Join(updatedRecipients, <<","," ">>))]
    ELSE IF IsSubject(line) /\ config.subjectPrefix # <<>>
    THEN [st EXCEPT !.updatedHeaders = Append(@, SubjectLine(config, line))]
    ELSE IF ~IsRemoved(line)
    THEN [st EXCEPT !.updatedHeaders = Append(@, line)]
    ELSE st

\* one iteration of `for (const line of headerLines)`
ProcessLine(config, originalRecipient, updatedRecipients, st, line) ==
    IF IsReplyTo(line)
    THEN [st EXCEPT !.hasReplyTo = TRUE,
                    !.updatedHeaders = Append(@, line)]
    ELSE IF IsFrom(line)
    THEN [st EXCEPT !.fromAddress = AfterName(line, 5),
                    !.updatedHeaders =
                        Append(@, NewFrom(config, originalRecipient, AfterName(line, 5)))]
    ELSE IF IsTo(line)
    THEN [st EXCEPT !.updatedHeaders =
                        Append(@, <<"T","o",":"," ">> \o Join(updatedRecipients, <<","," ">>))]
    ELSE IF IsSubject(line) /\ config.subjectPrefix # <<>>
    THEN [st EXCEPT !.updatedHeaders = Append(@, SubjectLine(config, line))]
    ELSE IF ~IsRemoved(line)
    THEN [st EXCEPT !.updatedHeaders = Append(@, line)]
    ELSE st

RECURSIVE ProcessLines(_, _, _, _, _)
ProcessLines(config, originalRecipient, updatedRecipients, st, lines) ==
    IF lines = <<>> THEN st
    ELSE ProcessLines(config, originalRecipient, updatedRecipients,
                      ProcessLine(config, originalRecipient, updatedRecipients,
                                  st, Head(lines)),
                      Tail(lines))

\* the header lines after the loop and the "Add Reply-To if missing" step
UpdatedHeaders(config, originalRecipient, messageText, updatedRecipients) ==
    LET st == ProcessLines(config, originalRecipient, updatedRecipients,
                           [hasReplyTo |-> FALSE, fromAddress |-> <<>>,
                            updatedHeaders |-> <<>>],
                           HeaderLines(HeaderOf(messageText)))
    IN  IF ~st.hasReplyTo /\ st.fromAddress # <<>>
        THEN Append(st.updatedHeaders,
                    <<"R","e","p","l","y","-","T","o",":"," ">> \o st.fromAddress)
        ELSE IF ~st.hasReplyTo
        THEN Append(st.updatedHeaders,
                    <<"R","e","p","l","y","-","T","o",":"," ">> \o originalRecipient)
        ELSE st.updatedHeaders

\* what the "Add Reply-To if missing" step logs
ReplyToLog(config, originalRecipient, messageText, updatedRecipients) ==
    LET st == ProcessLines(config, originalRecipient, updatedRecipients,
                           [hasReplyTo |-> FALSE, fromAddress |-> <<>>,
                            updatedHeaders |-> <<>>],
                           HeaderLines(HeaderOf(messageText)))
    IN  IF ~st.hasReplyTo /\ st.fromAddress # <<>>
        THEN <<[level |-> "info", message |-> "Added Reply-To address"]>>
        ELSE IF ~st.hasReplyTo
        THEN <<[level |-> "info", message |-> "Added default Reply-To"]>>
        ELSE <<>>

\* the value of fromAddress after the loop
FromAddress(config, originalRecipient, messageText, updatedRecipients) ==
    ProcessLines(config, originalRecipient, updatedRecipients,
                 [hasReplyTo |-> FALSE, fromAddress |-> <<>>, updatedHeaders |-> <<>>],
                 HeaderLines(HeaderOf(messageText))).fromAddress

\* the footer appended to the body
Footer(config, originalRecipient, fromAddress) ==
    <<"\r","\n","\r","\n","-","-","-","\r","\n",
      "F","o","r","w","a","r","d","e","d"," ","b","y"," ">>
        \o config.fromEmail
        \o <<"."," ","R","e","p","l","y"," ","t","o",":"," ">>
        \o (IF fromAddress # <<>> THEN fromAddress ELSE originalRecipient)

processMessage(config, originalRecipient, messageText, updatedRecipients) ==
    Join(UpdatedHeaders(config, originalRecipient, messageText, updatedRecipients),
         <<"\r","\n">>)
        \o <<"\r","\n","\r","\n">>
        \o BodyOf(messageText)
        \o Footer(config, originalRecipient,
                  FromAddress(config, originalRecipient, messageText, updatedRecipients))

-----------------------------------------------------------------------------
(* Inputs.                                                                 *)

MaxRecords == 2     \* events carry 0..MaxRecords records
MaxNonPass == 2     \* receipts carry at most MaxNonPass verdicts other than PASS
MaxRecipients == 2  \* transformRecipients is called with 0..MaxRecipients addresses
MaxHeaderLines == 3 \* raw messages carry 0..MaxHeaderLines header lines

\* a null event (`!event`)
NullEvent == [null |-> TRUE]

VerdictKeys == {"spamVerdict", "virusVerdict", "spfVerdict", "dkimVerdict", "dmarcVerdict"}

SeqsUpTo(S, n) == UNION {[1..k -> S] : k \in 0..n}

AddrNY == <<"n","@","y">>
AddrID == <<"i","@","d">>
AddrAE == <<"a","@","e">>
AddrOG == <<"o","@","g">>
AddrPG == <<"p","@","g">>
AddrIplusTD == <<"I","+","t","@","d">>

VerdictStatuses == {"PASS", "FAIL", "GRAY"}
VerdictAssignments ==
    {v \in [VerdictKeys -> VerdictStatuses] :
        Cardinality({k \in VerdictKeys : v[k] # "PASS"}) <= MaxNonPass}

Receipts ==
    {[recipients   |-> r,
      spamVerdict  |-> [status |-> v["spamVerdict"]],
      virusVerdict |-> [status |-> v["virusVerdict"]],
      spfVerdict   |-> [status |-> v["spfVerdict"]],
      dkimVerdict  |-> [status |-> v["dkimVerdict"]],
      dmarcVerdict |-> [status |-> v["dmarcVerdict"]]] :
        r \in {<<AddrID>>, <<AddrIplusTD, AddrAE>>}, v \in VerdictAssignments}

SesMessages == {[mail |-> [messageId |-> "m1"], receipt |-> r] : r \in Receipts}

RecordTags == {<<"aws:ses", "1.0">>, <<"aws:sns", "1.0">>, <<"aws:ses", "2.0">>}

Events ==
    {NullEvent, [version |-> "0"]} \cup
    {[Records |-> [i \in 1..Len(tags) |->
                      [eventSource |-> tags[i][1], eventVersion |-> tags[i][2],
                       ses |-> m]]] :
        tags \in SeqsUpTo(RecordTags, MaxRecords), m \in SesMessages}

HandlerConfigs ==
    [fromEmail : {<<>>, AddrNY},
     subjectPrefix : {<<>>},
     emailKeyPrefix : {"emails/"},
     forwardMapping : {<<>>, AddrID :> <<AddrOG, AddrPG>>},
     allowPlusSign : {TRUE},
     rejectSpam : BOOLEAN,
     discordWebhookUrl : {"", "https://discord.test/hook"}]

Environments == {[BUCKET |-> "ses-forwarder"], [BUCKET |-> ""], [REGION |-> "us-west-2"]}

StoredMessages ==
    { <<"F","r","o","m",":"," ","A","l"," ","<","a","@","x",">","\r","\n",
        "S","u","b","j","e","c","t",":"," ","H","i","\r","\n","\r","\n",
        "H","e","l","l","o","\r","\n">>,
      <<"S","u","b","j","e","c","t",":"," ","H","i","\n","T","o",":"," ","i","@","d","\n",
        "\n","H","e","l","l","o","\n">>,
      <<>> }

\* the chunks in which a Body stream can deliver a stored message: none for
\* an empty object, the whole text at once, or two halves
Chunkings(m) ==
    IF m = <<>> THEN {<<>>}
    ELSE {<<m>>, <<Take(m, Len(m) \div 2), Drop(m, Len(m) \div 2)>>}

\* how s3.send can settle: it rejects, it resolves without a Body, or it
\* resolves with a Body stream that will deliver a stored message
S3Responses ==
    {[kind |-> "rejected"], [kind |-> "noBody"]} \cup
    {[kind |-> "body", body |-> c] : c \in UNION {Chunkings(m) : m \in StoredMessages}}

\* the Body stream: the chunks still to come and the chunks received
NoStream == [pending |-> <<>>, chunks |-> <<>>]

\* how fetch() can settle: a response that is ok, a response that is not,
\* or a rejection of fetch itself
DiscordResponses ==
    {[kind |-> "ok"],
     [kind |-> "notOk", status |-> "500"],
     [kind |-> "notOk", status |-> "404"],
     [kind |-> "rejected", error |-> [type |-> "TypeError", value |-> "fetch failed"]]}

\* the errors a Body stream can emit while it is read
StreamErrors == {[type |-> "Error", value |-> "socket hang up"]}

NoMessage == [mail |-> [messageId |-> ""]]
NoResult == [original |-> <<>>, recipients |-> <<>>]
NoCall == [fn |-> "none"]
NotReturned == [returned |-> FALSE]

\* Inputs of transformRecipients: addresses a@d and a+x@d built from local
\* parts, tags and domains, an address without domain, one with two '@' and
\* one with a '+' but no '@'.  One local part holds a '+' of its own; one tag
\* ends in a line feed, which /\+.*?@/ does not cross, and one holds an '@',
\* where the lazy match of the regex stops.
Locals == {<<"i">>, <<"A">>, <<"i","+","s">>}
Tags == {<<"t">>, <<"t","\n">>, <<"u","@","v">>}
Domains == {<<"d">>, <<"e">>}
PlainAddr(a, d) == a \o <<"@">> \o d
PlusAddr(a, x, d) == a \o <<"+">> \o x \o <<"@">> \o d
Addresses ==
    {PlainAddr(a, d) : a \in Locals, d \in Domains}
    \cup {PlusAddr(a, x, d) : a \in Locals, x \in Tags, d \in Domains}
    \cup {<<"i">>, <<"a","@","c","@","d">>, <<"i","+","t">>}

\* forwardMapping: any subset of an exact, a domain, a user-only and the
\* catch-all key, each mapped to its own destinations or to none
MappingKeys == {AddrID, <<"@","d">>, <<"i">>, <<"@">>}
DestOf(k) ==
    CASE k = AddrID      -> <<AddrOG>>
      [] k = <<"@","d">> -> <<AddrPG>>
      [] k = <<"i">>     -> <<AddrOG, <<"q","@","g">>>>
      [] k = <<"@">>     -> <<<<"z","@","g">>>>
Mappings ==
    UNION {{f \in [K -> {<<>>} \cup {DestOf(k) : k \in K}] :
                \A k \in K : f[k] \in {<<>>, DestOf(k)}} : K \in SUBSET MappingKeys}

ResolveConfigs ==
    [fromEmail : {AddrNY},
     subjectPrefix : {<<>>},
     emailKeyPrefix : {""},
     forwardMapping : Mappings,
     allowPlusSign : BOOLEAN,
     rejectSpam : {TRUE},
     discordWebhookUrl : {""}]

\* receipt.recipients: every single address, and lists of up to
\* MaxRecipients addresses that match at different tiers or at none
ListAddresses ==
    {AddrID, PlainAddr(<<"A">>, <<"e">>), PlusAddr(<<"i">>, <<"t">>, <<"e">>), <<"i","+","t">>}
RecipientLists ==
    {<<a>> : a \in Addresses} \cup SeqsUpTo(ListAddresses, MaxRecipients)

ResolveArgs ==
    [fn : {"transformRecipients"},
     config : ResolveConfigs,
     recipients : RecipientLists]

\* Inputs of processMessage: raw messages made of 0..MaxHeaderLines header
\* lines, each ended by the message's line break, a blank line and a body
HeaderLineChoices ==
    { <<"F","r","o","m",":"," ","A","l"," ","<","a","@","x",">">>,
      <<"f","r","o","m",":","b","@","y">>,
      <<"F","r","o","m",":">>,
      <<"R","e","p","l","y","-","T","o",":"," ","r","@","z">>,
      <<"T","o",":"," ","i","@","d">>,
      <<"S","u","b","j","e","c","t",":"," ","H","i">>,
      <<"D","K","I","M","-","S","i","g","n","a","t","u","r","e",":"," ","v","=","1">>,
      <<" ","b","=","a","b","c">>,
      <<"M","e","s","s","a","g","e","-","I","D",":"," ","<","1","@","m",">">>,
      <<"R","e","t","u","r","n","-","P","a","t","h",":"," ","<","p","@","q",">">>,
      <<"S","e","n","d","e","r",":"," ","s","@","t">>,
      <<"D","a","t","e",":"," ","1">>,
      <<"F","r","o","m",":"," ","A","l">>,
      <<" ","<","a","@","x",">">> }

\* the lines that longer header blocks are made of
CoreHeaderLines ==
    { <<"F","r","o","m",":"," ","A","l"," ","<","a","@","x",">">>,
      <<"f","r","o","m",":","b","@","y">>,
      <<"R","e","p","l","y","-","T","o",":"," ","r","@","z">>,
      <<"T","o",":"," ","i","@","d">>,
      <<"S","u","b","j","e","c","t",":"," ","H","i">>,
      <<"D","K","I","M","-","S","i","g","n","a","t","u","r","e",":"," ","v","=","1">>,
      <<" ","b","=","a","b","c">> }

\* header blocks: up to MaxHeaderLines core lines, or fewer lines of any kind
HeaderBlocks ==
    SeqsUpTo(CoreHeaderLines, MaxHeaderLines)
        \cup SeqsUpTo(HeaderLineChoices, MaxHeaderLines - 1)
LineBreaks == {<<"\r","\n">>, <<"\n">>}
\* message bodies; the last one holds a carriage return that no line feed
\* follows, which split(/\r?\n/) keeps inside a line and the 'm' flag of the
\* header regex takes as the end of a line
Bodies ==
    { <<"H","e","l","l","o","\r","\n">>,
      <<"B","y","e"," ","n","o","w">>,
      <<>>,
      <<"X",":"," ","a","\r","S","e","n","d","e","r",":"," ","y","\r","\n">> }

RECURSIVE Concat(_, _)
Concat(lines, eol) ==
    IF lines = <<>> THEN <<>> ELSE Head(lines) \o eol \o Concat(Tail(lines), eol)

RawMessage(lines, eol, body) == Concat(lines, eol) \o eol \o body

\* CONFIG with neither fromEmail nor subjectPrefix, and with both
RewriteConfigs ==
    {[fromEmail |-> f[1], subjectPrefix |-> f[2], emailKeyPrefix |-> "",
      forwardMapping |-> <<>>, allowPlusSign |-> TRUE, rejectSpam |-> TRUE,
      discordWebhookUrl |-> ""] :
        f \in {<< <<>>, <<>> >>, <<AddrNY, <<"[","F","]"," ">> >>}}

RewriteArgs ==
    {[fn |-> "processMessage",
      config |-> c,
      originalRecipient |-> AddrID,
      headerLines |-> h,
      messageBody |-> RawMessage(h, eol, b),
      updatedRecipients |-> <<AddrOG, AddrPG>>] :
        c \in RewriteConfigs, h \in HeaderBlocks,
        eol \in LineBreaks, b \in Bodies}

-----------------------------------------------------------------------------
(* The handler and the functions it sequences.  Strings that the code only *)
(* compares or concatenates (bucket, key, URL, tags, log messages) are     *)
(* TLA+ strings; addresses and raw messages are character sequences.       *)

\* parseEvent without the test of the number of records
ParseEventOk_AnyLength(ev) ==
    ~ ( \/ ev = NullEvent
        \/ "Records" \notin DOMAIN ev
        \/ Len(ev.Records) < 1
        \/ ev.Records[1].eventSource # "aws:ses"
        \/ ev.Records[1].eventVersion # "1.0" )

\* parseEvent's test: TRUE when the event is accepted
ParseEventOk(ev) ==
    ~ ( \/ ev = NullEvent
        \/ "Records" \notin DOMAIN ev
        \/ Len(ev.Records) # 1
        \/ ev.Records[1].eventSource # "aws:ses"
        \/ ev.Records[1].eventVersion # "1.0" )

\* filterSpam that tests the spam and virus verdicts only
SpamFails_ContentOnly(config, receipt) ==
    /\ config.rejectSpam
    /\ \E key \in {"spamVerdict", "virusVerdict"} : receipt[key].status = "FAIL"

\* filterSpam's loop: TRUE when it throws false
SpamFails(config, receipt) ==
    /\ config.rejectSpam
    /\ \E key \in VerdictKeys : receipt[key].status = "FAIL"

\* sendDiscordMessage without the `if (!response.ok)` test
DiscordFails_NoStatusTest(response) == response = "rejected"

\* `if (!response.ok)` of sendDiscordMessage, on the outcome of fetch()
DiscordFails(response) == response # "ok"

\* const Bucket = process.env.BUCKET || ''
Bucket(environment) ==
    IF "BUCKET" \in DOMAIN environment THEN environment.BUCKET ELSE ""

\* assert(Bucket, 'Bucket is not defined') passes
BucketDefined(environment) == Bucket(environment) # ""

\* assert(messageBody, 'Message body is not defined') passes
BodyDefined(body) == body # NULL /\ body # <<>>

\* Buffer.concat(chunks).toString('utf-8')
RECURSIVE ConcatChunks(_)
ConcatChunks(chunks) ==
    IF chunks = <<>> THEN <<>> ELSE Head(chunks) \o ConcatChunks(Tail(chunks))

\* a character sequence as one string (log messages are strings)
RECURSIVE Str(_)
Str(text) == IF text = <<>> THEN "" ELSE Head(text) \o Str(Tail(text))

\* thrown values: `throw false`, `new Error(msg)`, a failed assert
ThrownFalse == [type |-> "boolean", value |-> "false"]
Error(msg) == [type |-> "Error", value |-> msg]
AssertionError(msg) == [type |-> "AssertionError", value |-> msg]
NothingThrown == [type |-> "none", value |-> ""]

\* a catch block that rethrows what is not the spam sentinel
Catch_Rethrow(err) ==
    IF err = ThrownFalse THEN "rejected" ELSE "uncaught"

\* the handler's catch block: the outcome it ends in
Catch(err) ==
    IF err = ThrownFalse THEN "rejected" ELSE "error"

\* the log entries the catch block writes
CatchLogs(err) ==
    IF err = ThrownFalse
    THEN <<[level |-> "info",
            message |-> "Email rejected by spam filter. No forwarding performed."]>>
    ELSE <<[level |-> "error", message |-> "Error in handler."]>>

\* a handler body that fetches the message before it filters spam
Successor_FetchFirst(at) ==
    CASE at = "parseEvent"          -> "sendDiscordMessage"
      [] at = "sendDiscordMessage"  -> "transformRecipients"
      [] at = "transformRecipients" -> "fetchMessage"
      [] at = "fetchMessage"        -> "filterSpam"
      [] at = "filterSpam"          -> "processMessage"
      [] at = "processMessage"      -> "sendMessage"
      [] at = "sendMessage"         -> "done"

\* the order in which the handler body runs its steps
Successor(at) ==
    CASE at = "parseEvent"          -> "sendDiscordMessage"
      [] at = "sendDiscordMessage"  -> "transformRecipients"
      [] at = "transformRecipients" -> "filterSpam"
      [] at = "filterSpam"          -> "fetchMessage"
      [] at = "fetchMessage"        -> "processMessage"
      [] at = "processMessage"      -> "sendMessage"
      [] at = "sendMessage"         -> "done"

Log(level, msg) == [level |-> level, message |-> msg]

\* a throw inside the handler's try block: control moves to the catch block,
\* which logs and returns
Throw(err, newLogs) ==
    /\ thrown' = err
    /\ outcome' = Catch(err)
    /\ logs' = logs \o newLogs \o CatchLogs(err)
    /\ pc' = "done"

Pending == {i \in 1..Len(calls) : calls[i].result = "pending"}

Issue(op, params) ==
    calls' = Append(calls, [op |-> op, params |-> params, result |-> "pending"])

Settle(op, res) ==
    calls' = [i \in 1..Len(calls) |->
                 IF calls[i].op = op /\ calls[i].result = "pending"
                 THEN [calls[i] EXCEPT !.result = res]
                 ELSE calls[i]]

\* const message = await parseEvent(event)
ParseEvent ==
    /\ pc = "parseEvent"
    /\ stages' = Append(stages, "ValidateEvent")
    /\ IF ParseEventOk(event)
       THEN /\ message' = event.Records[1].ses
            /\ pc' = Successor("parseEvent")
            /\ UNCHANGED <<logs, outcome, thrown>>
       ELSE /\ Throw(Error("Error: Received invalid SES message."),
                     <<Log("error", "parseEvent() received invalid SES message.")>>)
            /\ UNCHANGED message
    /\ UNCHANGED <<cfg, env, event, stream, calls, result, messageBody, updatedMessageBody,
                   args, ret>>

\* await sendDiscordMessage(discordMessage), up to the fetch() it awaits
SendDiscordMessage ==
    /\ pc = "sendDiscordMessage"
    /\ IF cfg.discordWebhookUrl # ""
       THEN /\ stages' = Append(stages, "NotifyExternal")
            /\ Issue("webhook", [url |-> cfg.discordWebhookUrl])
            /\ pc' = "awaitWebhook"
       ELSE /\ pc' = Successor("sendDiscordMessage")
            /\ UNCHANGED <<stages, calls>>
    /\ UNCHANGED <<cfg, env, event, stream, logs, outcome, thrown, message, result,
                   messageBody, updatedMessageBody, args, ret>>

\* fetch() settles.  A response that is not ok throws an Error that names
\* the status; the catch block of sendDiscordMessage logs and rethrows what
\* it caught, that Error or the rejection of fetch itself.
DiscordResponse ==
    /\ pc = "awaitWebhook"
    /\ \E response \in DiscordResponses :
        /\ Settle("webhook", response.kind)
        /\ IF DiscordFails(response.kind)
           THEN Throw(IF response.kind = "rejected"
                      THEN response.error
                      ELSE Error("Discord webhook failed with status: "
                                     \o response.status),
                      <<Log("error", "Failed to send Discord message")>>)
           ELSE /\ logs' = Append(logs, Log("info", "Discord message sent successfully"))
                /\ pc' = Successor("sendDiscordMessage")
                /\ UNCHANGED <<outcome, thrown>>
    /\ UNCHANGED <<cfg, env, event, stream, stages, message, result, messageBody,
                   updatedMessageBody, args, ret>>

\* the handler after transformRecipients returned r or threw r.throws, having
\* logged newLogs
Resolved(r, newLogs) ==
    IF "throws" \in DOMAIN r
    THEN /\ Throw(r.throws, <<>>)
         /\ UNCHANGED result
    ELSE /\ result' = r
         /\ logs' = logs \o newLogs
         /\ pc' = Successor("transformRecipients")
         /\ UNCHANGED <<outcome, thrown>>

\* const { original, recipients } = transformRecipients(message)
TransformRecipients ==
    /\ pc = "transformRecipients"
    /\ stages' = Append(stages, "ResolveRecipients")
    /\ Resolved(transformRecipients(cfg, message.receipt.recipients),
                NoRecipientsLog(cfg, message.receipt.recipients))
    /\ UNCHANGED <<cfg, env, event, stream, calls, message, messageBody,
                   updatedMessageBody, args, ret>>

\* await filterSpam(message)
FilterSpam ==
    /\ pc = "filterSpam"
    /\ stages' = Append(stages, "SpamCheck")
    /\ IF SpamFails(cfg, message.receipt)
       THEN Throw(ThrownFalse, <<Log("error", "Error: Email failed spam filter.")>>)
       ELSE /\ pc' = Successor("filterSpam")
            /\ UNCHANGED <<logs, outcome, thrown>>
    /\ UNCHANGED <<cfg, env, event, stream, calls, message, result, messageBody,
                   updatedMessageBody, args, ret>>

\* await fetchMessage(message), up to the s3.send it awaits
FetchMessage ==
    /\ pc = "fetchMessage"
    /\ stages' = Append(stages, "FetchBody")
    /\ IF ~BucketDefined(env)
       THEN /\ Throw(AssertionError("Bucket is not defined"), <<>>)
            /\ UNCHANGED calls
       ELSE /\ logs' = Append(logs, Log("info", "Fetching email from S3."))
            /\ Issue("s3.GetObject",
                     [Bucket |-> Bucket(env),
                      Key |-> cfg.emailKeyPrefix \o message.mail.messageId])
            /\ pc' = "awaitS3"
            /\ UNCHANGED <<outcome, thrown>>
    /\ UNCHANGED <<cfg, env, event, stream, message, result, messageBody,
                   updatedMessageBody, args, ret>>

\* assert(messageBody, 'Message body is not defined') on what fetchMessage
\* returned, with the log entries written since the last step
AssertBody(body, newLogs) ==
    /\ messageBody' = body
    /\ IF ~BodyDefined(body)
       THEN Throw(AssertionError("Message body is not defined"), newLogs)
       ELSE /\ logs' = logs \o newLogs
            /\ pc' = Successor("fetchMessage")
            /\ UNCHANGED <<outcome, thrown>>

\* s3.send settles.  A rejection or a missing Body is caught inside
\* fetchMessage, which logs and returns null; with a Body, fetchMessage
\* returns the promise of streamToString and the handler waits for the stream.
S3Response ==
    /\ pc = "awaitS3"
    /\ \E response \in S3Responses :
        /\ Settle("s3.GetObject", response.kind)
        /\ IF response.kind = "body"
           THEN /\ stream' = [pending |-> response.body, chunks |-> <<>>]
                /\ pc' = "readBody"
                /\ UNCHANGED <<logs, outcome, thrown, messageBody>>
           ELSE /\ AssertBody(NULL, <<Log("error", "getObject() returned error.")>>)
                /\ UNCHANGED stream
    /\ UNCHANGED <<cfg, env, event, stages, message, result, updatedMessageBody,
                   args, ret>>

\* stream.on('data', ...): the next chunk arrives
StreamData ==
    /\ pc = "readBody"
    /\ stream.pending # <<>>
    /\ stream' = [pending |-> Tail(stream.pending),
                  chunks |-> Append(stream.chunks, Head(stream.pending))]
    /\ UNCHANGED <<cfg, env, event, pc, calls, stages, logs, outcome, thrown, message,
                   result, messageBody, updatedMessageBody, args, ret>>

\* stream.on('end', ...): the promise resolves with the text read, and the
\* handler goes on to assert(messageBody, ...)
StreamEnd ==
    /\ pc = "readBody"
    /\ stream.pending = <<>>
    /\ AssertBody(ConcatChunks(stream.chunks), <<>>)
    /\ UNCHANGED <<cfg, env, event, stream, calls, stages, message, result,
                   updatedMessageBody, args, ret>>

\* stream.on('error', reject): the promise fetchMessage returned rejects
\* outside its try block, so the error reaches the handler's catch block
StreamError ==
    /\ pc = "readBody"
    /\ \E err \in StreamErrors : Throw(err, <<>>)
    /\ UNCHANGED <<cfg, env, event, stream, calls, stages, message, result,
                   messageBody, updatedMessageBody, args, ret>>

\* const updatedMessageBody = processMessage(original, messageBody, recipients)
ProcessMessage ==
    /\ pc = "processMessage"
    /\ stages' = Append(stages, "RewriteHeaders")
    /\ updatedMessageBody' =
           processMessage(cfg, result.original, messageBody, result.recipients)
    /\ logs' = logs \o ReplyToLog(cfg, result.original, messageBody, result.recipients)
                    \o <<Log("info", Str(updatedMessageBody'))>>
    /\ pc' = Successor("processMessage")
    /\ UNCHANGED <<cfg, env, event, stream, calls, outcome, thrown, message, result,
                   messageBody, args, ret>>

\* the SendRawEmailCommandInput sendMessage builds
SendParams(config, originalRecipient, updatedRecipients, body) ==
    [Destinations |-> updatedRecipients,
     Source |-> config.fromEmail,
     RawMessage |-> body]

\* await sendMessage(...), up to the ses.send it awaits
SendMessage ==
    /\ pc = "sendMessage"
    /\ stages' = Append(stages, "SendMessage")
    /\ logs' = Append(logs, Log("info", "sendMessage: Sending email via SES."))
    /\ Issue("ses.SendRawEmail",
             SendParams(cfg, result.original, result.recipients, updatedMessageBody))
    /\ pc' = "awaitSes"
    /\ UNCHANGED <<cfg, env, event, stream, outcome, thrown, message, result, messageBody,
                   updatedMessageBody, args, ret>>

\* ses.send settles
SesResponse ==
    /\ pc = "awaitSes"
    /\ \E response \in {"ok", "rejected"} :
        /\ Settle("ses.SendRawEmail", response)
        /\ IF response = "ok"
           THEN /\ logs' = logs \o <<Log("info", "sendRawEmail() successful."),
                                     Log("info", "Email forwarded successfully.")>>
                /\ stages' = Append(stages, "Done")
                /\ outcome' = "forwarded"
                /\ pc' = Successor("sendMessage")
                /\ UNCHANGED thrown
           ELSE /\ Throw(Error("Error: Email sending failed."),
                         <<Log("error", "sendRawEmail() returned error.")>>)
                /\ UNCHANGED stages
    /\ UNCHANGED <<cfg, env, event, stream, message, result, messageBody,
                   updatedMessageBody, args, ret>>

-----------------------------------------------------------------------------
(* The handler's specification.                                            *)

Init ==
    /\ cfg \in HandlerConfigs
    /\ env \in Environments
    /\ event \in Events
    /\ pc = "parseEvent"
    /\ calls = <<>>
    /\ stages = <<>>
    /\ logs = <<>>
    /\ outcome = "running"
    /\ thrown = NothingThrown
    /\ message = NoMessage
    /\ result = NoResult
    /\ stream = NoStream
    /\ messageBody = NULL
    /\ updatedMessageBody = NULL
    /\ args = NoCall
    /\ ret = NotReturned

Next ==
    \/ ParseEvent
    \/ SendDiscordMessage
    \/ DiscordResponse
    \/ TransformRecipients
    \/ FilterSpam
    \/ FetchMessage
    \/ S3Response
    \/ StreamData
    \/ StreamEnd
    \/ StreamError
    \/ ProcessMessage
    \/ SendMessage
    \/ SesResponse

Spec == Init /\ [][Next]_vars

-----------------------------------------------------------------------------
(* Properties of the handler.                                              *)

Last(seq) == seq[Len(seq)]

Ops == {calls[i].op : i \in 1..Len(calls)}
CountOp(op) == Cardinality({i \in 1..Len(calls) : calls[i].op = op})
Logged(msg) == \E i \in 1..Len(logs) : logs[i].message = msg
StageSet == {stages[i] : i \in 1..Len(stages)}

\* the pipeline stage that issues an I/O request
StageOfOp(op) ==
    CASE op = "webhook"          -> "NotifyExternal"
      [] op = "s3.GetObject"     -> "FetchBody"
      [] op = "ses.SendRawEmail" -> "SendMessage"

\* the event carries exactly one record, tagged aws:ses / 1.0
ExactlyOneSesRecord(ev) ==
    /\ ev # NullEvent
    /\ "Records" \in DOMAIN ev
    /\ Len(ev.Records) = 1
    /\ ev.Records[1].eventSource = "aws:ses"
    /\ ev.Records[1].eventVersion = "1.0"

\* one of the five verdicts of the event's receipt has status FAIL
SomeVerdictFails(ev) ==
    /\ ExactlyOneSesRecord(ev)
    /\ \E key \in VerdictKeys : ev.Records[1].ses.receipt[key].status = "FAIL"

RejectedBySpamFilter ==
    /\ outcome = "rejected"
    /\ Last(logs) = Log("info", "Email rejected by spam filter. No forwarding performed.")
    /\ ~Logged("Error in handler.")

GenericError ==
    /\ outcome = "error"
    /\ Last(logs) = Log("error", "Error in handler.")

(* C1, as claimed: with rejectSpam enabled and a verdict with status FAIL,
   the fetch and the send are never invoked and the invocation ends in the
   'rejected by spam filter' outcome. *)
C1_AsClaimed ==
    (cfg.rejectSpam /\ SomeVerdictFails(event)) =>
        /\ "s3.GetObject" \notin Ops
        /\ "ses.SendRawEmail" \notin Ops
        /\ (pc = "done" => RejectedBySpamFilter)

(* C1, amended: with rejectSpam enabled and a verdict with status FAIL, the
   fetch and the send are never invoked; the invocation ends in the
   'rejected by spam filter' outcome (an info entry, no generic error entry)
   when it reaches the spam check, and in the generic error outcome when the
   configured webhook notification fails before the spam check. *)
C1_SpamRejection ==
    (cfg.rejectSpam /\ SomeVerdictFails(event)) =>
        /\ "s3.GetObject" \notin Ops
        /\ "ses.SendRawEmail" \notin Ops
        /\ (pc = "done" /\ "SpamCheck" \in StageSet => RejectedBySpamFilter)
        /\ (pc = "done" /\ "SpamCheck" \notin StageSet =>
                GenericError /\ Logged("Failed to send Discord message"))

C1_Witness ==
    /\ pc = "done"
    /\ cfg.rejectSpam
    /\ "SpamCheck" \in StageSet
    /\ message.receipt.dmarcVerdict.status = "FAIL"
    /\ message.receipt.spamVerdict.status = "PASS"
    /\ RejectedBySpamFilter

\* an I/O request that failed, or a fetch that returned no usable body: an
\* empty object, or a Body stream that broke while it was read
FailedCall(i) ==
    \/ calls[i].op = "webhook" /\ calls[i].result \in {"notOk", "rejected"}
    \/ calls[i].op = "s3.GetObject" /\ calls[i].result \in {"rejected", "noBody"}
    \/ calls[i].op = "s3.GetObject" /\ calls[i].result = "body" /\ messageBody = <<>>
    \/ calls[i].op = "s3.GetObject" /\ calls[i].result = "body" /\ thrown \in StreamErrors
    \/ calls[i].op = "ses.SendRawEmail" /\ calls[i].result = "rejected"

(* C2: a stage failure short-circuits the pipeline.  A failed notification,
   a failed fetch (or a fetch without a body) is the last I/O request of the
   invocation and its stage the last stage entered; a rejected event or a
   rejected message is followed by no I/O request other than the
   notification that preceded it. *)
C2_ShortCircuit ==
    /\ \A i \in 1..Len(calls) :
          FailedCall(i) =>
              /\ i = Len(calls)
              /\ Last(stages) = StageOfOp(calls[i].op)
              /\ pc = "done"
              /\ GenericError
    /\ thrown # NothingThrown =>
          /\ pc = "done"
          /\ "Done" \notin StageSet
          /\ Pending = {}
    /\ thrown = Error("Error: Received invalid SES message.") =>
          stages = <<"ValidateEvent">> /\ calls = <<>>
    /\ thrown = ThrownFalse =>
          Last(stages) = "SpamCheck" /\ Ops \subseteq {"webhook"}

C2_Witness ==
    /\ pc = "done"
    /\ Len(calls) = 2
    /\ calls[1].result = "ok"
    /\ calls[2].op = "s3.GetObject"
    /\ calls[2].result = "rejected"
    /\ "ses.SendRawEmail" \notin Ops

(* C3: the event is accepted exactly when it carries one record tagged
   aws:ses / 1.0; any other event is rejected with no webhook notification,
   no fetch and no send. *)
C3_Validation ==
    /\ pc # "parseEvent" =>
          (ExactlyOneSesRecord(event) <=>
              thrown # Error("Error: Received invalid SES message."))
    /\ ~ExactlyOneSesRecord(event) =>
          /\ calls = <<>>
          /\ StageSet \subseteq {"ValidateEvent"}
          /\ (pc = "done" => GenericError)

C3_Witness ==
    /\ pc = "done"
    /\ event # NullEvent
    /\ "Records" \in DOMAIN event
    /\ Len(event.Records) = 2
    /\ event.Records[1].eventSource = "aws:ses"
    /\ event.Records[1].eventVersion = "1.0"
    /\ calls = <<>>
    /\ GenericError

\* the order of the stages for a configuration
StageOrder(config) ==
    <<"ValidateEvent">>
    \o (IF config.discordWebhookUrl # "" THEN <<"NotifyExternal">> ELSE <<>>)
    \o <<"ResolveRecipients", "SpamCheck", "FetchBody", "RewriteHeaders",
         "SendMessage", "Done">>

IsPrefix(a, b) == Len(a) <= Len(b) /\ a = SubSeq(b, 1, Len(a))

(* C4: the stages are entered in the fixed order, each after the earlier
   ones completed; at most one I/O request is in flight, no stage is entered
   while one is, every request before the last one succeeded, and the fetch
   and the send are each issued at most once. *)
C4_StageOrder ==
    /\ IsPrefix(stages, StageOrder(cfg))
    /\ Cardinality(Pending) <= 1
    /\ \A i \in Pending : i = Len(calls) /\ Last(stages) = StageOfOp(calls[i].op)
    /\ pc = "readBody" => Last(stages) = "FetchBody"
    /\ \A i \in 1..(Len(calls) - 1) : calls[i].result \in {"ok", "body"}
    /\ CountOp("webhook") <= 1
    /\ CountOp("s3.GetObject") <= 1
    /\ CountOp("ses.SendRawEmail") <= 1
    /\ "ses.SendRawEmail" \in Ops => "s3.GetObject" \in Ops

C4_Witness ==
    /\ outcome = "forwarded"
    /\ cfg.discordWebhookUrl # ""
    /\ stages = <<"ValidateEvent", "NotifyExternal", "ResolveRecipients", "SpamCheck",
                  "FetchBody", "RewriteHeaders", "SendMessage", "Done">>
    /\ Len(calls) = 3

(* C5: every failure is caught by the handler, logged, and the handler
   returns normally: a thrown value always ends the invocation in the
   rejected or the generic error outcome with the catch block's log entry
   last, no invocation ends otherwise than forwarded, rejected or error, and
   an invocation that has not ended is at a position of the handler whose
   step can be taken (an await position has its request in flight, the
   position that reads the fetched body has none, and every other step is
   guarded by the position alone). *)
C5_FailuresSwallowed ==
    /\ thrown # NothingThrown =>
          /\ pc = "done"
          /\ outcome \in {"rejected", "error"}
          /\ Last(logs) \in {Log("error", "Error in handler."),
                             Log("info", "Email rejected by spam filter. No forwarding performed.")}
    /\ pc = "done" => outcome \in {"forwarded", "rejected", "error"}
    /\ pc = "done" /\ outcome # "forwarded" => thrown # NothingThrown
    /\ pc # "done" =>
          /\ outcome = "running"
          /\ pc \in {"parseEvent", "sendDiscordMessage", "awaitWebhook",
                     "transformRecipients", "filterSpam", "fetchMessage", "awaitS3",
                     "readBody", "processMessage", "sendMessage", "awaitSes"}
          /\ pc \in {"awaitWebhook", "awaitS3", "awaitSes"} <=> Pending # {}

C5_Witness ==
    /\ pc = "done"
    /\ thrown = Error("Error: Email sending failed.")
    /\ calls[Len(calls)].op = "ses.SendRawEmail"
    /\ Logged("sendRawEmail() returned error.")
    /\ GenericError

(* C6, as claimed: when the bucket name is absent or empty, the failed
   assertion of fetchMessage is not logged and swallowed by the handler: it
   leaves the handler as an uncaught fault. *)
C6_AsClaimed ==
    (thrown = AssertionError("Bucket is not defined")) =>
        /\ outcome \notin {"forwarded", "rejected", "error"}
        /\ ~Logged("Error in handler.")

-----------------------------------------------------------------------------
(* transformRecipients and processMessage on their own: the arguments are  *)
(* drawn from the input sets and one step applies the function.            *)

IdleHandler ==
    /\ cfg = [fromEmail |-> AddrNY, subjectPrefix |-> <<>>, emailKeyPrefix |-> "",
              forwardMapping |-> <<>>, allowPlusSign |-> TRUE, rejectSpam |-> TRUE,
              discordWebhookUrl |-> ""]
    /\ env = [BUCKET |-> ""]
    /\ event = NullEvent
    /\ pc = "idle"
    /\ calls = <<>>
    /\ stages = <<>>
    /\ logs = <<>>
    /\ outcome = "running"
    /\ thrown = NothingThrown
    /\ message = NoMessage
    /\ result = NoResult
    /\ stream = NoStream
    /\ messageBody = NULL
    /\ updatedMessageBody = NULL

InitResolve ==
    /\ IdleHandler
    /\ args \in ResolveArgs
    /\ ret = NotReturned

CallTransformRecipients ==
    /\ args.fn = "transformRecipients"
    /\ ~ret.returned
    /\ ret' = [returned |-> TRUE,
               value |-> transformRecipients(args.config, args.recipients)]
    /\ logs' = logs \o NoRecipientsLog(args.config, args.recipients)
    /\ UNCHANGED <<cfg, env, event, pc, calls, stages, outcome, thrown, message,
                   result, stream, messageBody, updatedMessageBody, args>>

NextResolve == CallTransformRecipients

SpecResolve == InitResolve /\ [][NextResolve]_vars

InitRewrite ==
    /\ IdleHandler
    /\ args \in RewriteArgs
    /\ ret = NotReturned

CallProcessMessage ==
    /\ args.fn = "processMessage"
    /\ ~ret.returned
    /\ ret' = [returned |-> TRUE,
               value |-> processMessage(args.config, args.originalRecipient,
                                        args.messageBody, args.updatedRecipients)]
    /\ logs' = logs \o ReplyToLog(args.config, args.originalRecipient,
                                  args.messageBody, args.updatedRecipients)
    /\ UNCHANGED <<cfg, env, event, pc, calls, stages, outcome, thrown, message,
                   result, stream, messageBody, updatedMessageBody, args>>

NextRewrite == CallProcessMessage

SpecRewrite == InitRewrite /\ [][NextRewrite]_vars

-----------------------------------------------------------------------------
(* Properties of transformRecipients.                                      *)

\* The four lookup keys of an address, in the claimed order of priority:
\* the full address, '@domain' (from the last '@'), the local part, and '@'.
\* <<>> marks a tier the address does not have.
TierKeys(config, addr) ==
    LET key == OrigEmailKey(config, addr)
        pos == LastIndexOf(key, "@")
    IN  << key,
           IF pos = 0 THEN <<>> ELSE Drop(key, pos - 1),
           IF pos = 0 THEN key ELSE Take(key, pos - 1),
           <<"@">> >>

\* the tiers of an address that are keys of the mapping
PresentAmong(mapping, keys) ==
    {n \in 1..4 : keys[n] # <<>> /\ keys[n] \in DOMAIN mapping}
PresentTiers(config, addr) ==
    PresentAmong(config.forwardMapping, TierKeys(config, addr))

Min(S) == CHOOSE n \in S : \A m \in S : n <= m

\* the destinations of the highest-priority tier present
WinningDestinations(config, addr) ==
    config.forwardMapping[TierKeys(config, addr)[Min(PresentTiers(config, addr))]]

(* C7: for a single recipient whose keys are present in several tiers, the
   destinations are those of exactly one tier, the first present in the
   order exact address, '@domain', local part, '@'; destinations of the
   other tiers are not added. *)
C7_TierPriority ==
    (ret.returned /\ args.fn = "transformRecipients" /\ Len(args.recipients) = 1) =>
        LET addr == args.recipients[1]
        IN  IF PresentTiers(args.config, addr) = {}
            THEN ret.value = [original |-> <<>>, recipients |-> args.recipients]
            ELSE /\ ret.value.original = addr
                 /\ ret.value.recipients =
                        IF WinningDestinations(args.config, addr) # <<>>
                        THEN WinningDestinations(args.config, addr)
                        ELSE args.recipients

C7_Witness ==
    /\ ret.returned
    /\ args.fn = "transformRecipients"
    /\ args.recipients = <<AddrID>>
    /\ DOMAIN args.config.forwardMapping = MappingKeys
    /\ \A k \in MappingKeys : args.config.forwardMapping[k] = DestOf(k)
    /\ ret.value.recipients = <<AddrOG>>

(* C8, as claimed: with allowPlusSign enabled, resolving the single
   recipient a+x@d returns the same RecipientsResult, 'original' and
   'recipients', as resolving a@d. *)
C8_AsClaimed ==
    \A a \in Locals, x \in Tags, d \in Domains :
        ( /\ ret.returned
          /\ args.fn = "transformRecipients"
          /\ args.config.allowPlusSign
          /\ args.recipients = <<PlusAddr(a, x, d)>> ) =>
            ret.value = transformRecipients(args.config, <<PlainAddr(a, d)>>)

\* the spans of s that /\+.*?@/ can match: a '+', an '@' after it, and
\* between the two neither an '@' nor a line terminator
PlusSpans(s) ==
    {sp \in (1..Len(s)) \X (1..Len(s)) :
        /\ sp[1] < sp[2]
        /\ s[sp[1]] = "+"
        /\ s[sp[2]] = "@"
        /\ \A k \in (sp[1] + 1)..(sp[2] - 1) :
               s[k] # "@" /\ s[k] \notin {"\n", "\r", "U+2028", "U+2029"}}

\* s with its leftmost such span replaced by '@', s itself when it has none
LookedUpAs(s) ==
    IF PlusSpans(s) = {} THEN s
    ELSE LET sp == CHOOSE m \in PlusSpans(s) : \A o \in PlusSpans(s) : m[1] <= o[1]
         IN  Take(s, sp[1] - 1) \o Drop(s, sp[2] - 1)

\* the tag x of a+x@d is what the replacement takes away: x holds neither an
\* '@' nor a line terminator, and no span lies within a or within d
TagRemoved(a, x, d) ==
    /\ \A k \in 1..Len(x) : x[k] \notin {"@", "\n", "\r", "U+2028", "U+2029"}
    /\ PlusSpans(a) = {}
    /\ PlusSpans(d) = {}

\* the result of resolving the single recipient r when it is looked up, with
\* no plus-sign handling, as the address e
ResultFor(config, r, e) ==
    LET off == [config EXCEPT !.allowPlusSign = FALSE]
    IN  IF PresentTiers(off, e) = {}
        THEN [original |-> <<>>, recipients |-> <<r>>]
        ELSE [original |-> r,
              recipients |-> IF WinningDestinations(off, e) # <<>>
                             THEN WinningDestinations(off, e)
                             ELSE <<r>>]

\* a tag that is not removed as a whole: with a mapping whose only key is
\* i@d, the recipient i+x@d matches no tier, and i@d matches the exact one
TagKept(x) ==
    ( /\ ret.returned
      /\ args.fn = "transformRecipients"
      /\ args.config.allowPlusSign
      /\ args.recipients = <<PlusAddr(<<"i">>, x, <<"d">>)>>
      /\ DOMAIN args.config.forwardMapping = {AddrID}
      /\ args.config.forwardMapping[AddrID] = <<AddrOG>> ) =>
        /\ ret.value = [original |-> <<>>,
                        recipients |-> <<PlusAddr(<<"i">>, x, <<"d">>)>>]
        /\ transformRecipients(args.config, <<AddrID>>)
               = [original |-> AddrID, recipients |-> <<AddrOG>>]

(* C8, amended: with allowPlusSign enabled, the single recipient a+x@d is
   looked up as the address in which the leftmost '+' that an '@' follows on
   the same line is replaced, together with everything up to the nearest such
   '@', by '@'.  When x holds neither an '@' nor a line terminator and no
   such span lies within a or within d, that address is the one a@d is
   looked up as: both match the same tier and, when it has destinations,
   return the same 'recipients'.  A tag that ends in a line feed stays in the
   key, and of a tag that holds an '@' only the part before it is removed:
   such a recipient matches no tier of a mapping whose only key is a@d.
   'original' is the recipient as written (a+x@d, resp. a@d) when a tier
   matched and the empty string otherwise, and without destinations each
   call returns its own recipient list. *)
C8_PlusSign ==
    /\ \A a \in Locals, x \in Tags, d \in Domains :
        ( /\ ret.returned
          /\ args.fn = "transformRecipients"
          /\ args.config.allowPlusSign
          /\ args.recipients = <<PlusAddr(a, x, d)>> ) =>
            /\ ret.value = ResultFor(args.config, PlusAddr(a, x, d),
                                     LookedUpAs(PlusAddr(a, x, d)))
            /\ transformRecipients(args.config, <<PlainAddr(a, d)>>)
                   = ResultFor(args.config, PlainAddr(a, d), LookedUpAs(PlainAddr(a, d)))
            /\ TagRemoved(a, x, d) =>
                   LookedUpAs(PlusAddr(a, x, d)) = LookedUpAs(PlainAddr(a, d))
    /\ TagKept(<<"t","\n">>)
    /\ TagKept(<<"u","@","v">>)

C8_Witness ==
    /\ ret.returned
    /\ args.fn = "transformRecipients"
    /\ args.config.allowPlusSign
    /\ args.recipients = <<PlusAddr(<<"i">>, <<"t">>, <<"d">>)>>
    /\ DOMAIN args.config.forwardMapping = {AddrID}
    /\ ret.value = [original |-> PlusAddr(<<"i">>, <<"t">>, <<"d">>),
                    recipients |-> <<AddrOG>>]

\* the destinations of all recipients, tier by tier, in recipient order
RECURSIVE AllDestinations(_, _)
AllDestinations(config, list) ==
    IF list = <<>> THEN <<>>
    ELSE (IF PresentTiers(config, Head(list)) = {} THEN <<>>
          ELSE WinningDestinations(config, Head(list)))
         \o AllDestinations(config, Tail(list))

(* C9: if no tier matches any recipient, the result is the original
   recipient list unchanged and the empty string as 'original'; whenever the
   concatenated destinations are empty, 'recipients' is the original
   recipient list. *)
C9_Fallback ==
    (ret.returned /\ args.fn = "transformRecipients") =>
        /\ (\A i \in 1..Len(args.recipients) :
                PresentTiers(args.config, args.recipients[i]) = {})
             => ret.value = [original |-> <<>>, recipients |-> args.recipients]
        /\ AllDestinations(args.config, args.recipients) = <<>>
             => ret.value.recipients = args.recipients

C9_Witness ==
    /\ ret.returned
    /\ args.fn = "transformRecipients"
    /\ args.recipients = <<PlainAddr(<<"A">>, <<"e">>), <<"i","+","t">>>>
    /\ DOMAIN args.config.forwardMapping = {AddrID, <<"@","d">>}
    /\ args.config.forwardMapping[AddrID] # <<>>
    /\ ret.value = [original |-> <<>>, recipients |-> args.recipients]

-----------------------------------------------------------------------------
(* Properties of processMessage.                                           *)

\* the lines of a message up to its first empty line
RECURSIVE UpToBlank(_)
UpToBlank(lines) ==
    IF lines = <<>> \/ Head(lines) = <<>> THEN <<>>
    ELSE <<Head(lines)>> \o UpToBlank(Tail(lines))

OutputHeaderBlock(text) == UpToBlank(SplitLines(text))

Count(lines, Test(_)) == Cardinality({i \in 1..Len(lines) : Test(lines[i])})

(* C10, as claimed: whatever the number of From and Reply-To lines of the
   input, the header block of the output holds exactly one From header and
   exactly one Reply-To header. *)
C10_AsClaimed ==
    (ret.returned /\ args.fn = "processMessage") =>
        /\ Count(OutputHeaderBlock(ret.value), IsFrom) = 1
        /\ Count(OutputHeaderBlock(ret.value), IsReplyTo) = 1

\* the header block of the raw input message, as physical lines
InputHeaderBlock == UpToBlank(SplitLines(args.messageBody))

\* a physical line that continues the header before it (leading space or tab)
IsContinuation(line) == line # <<>> /\ line[1] \in {" ", "\t"}

\* the header line that physical line i of 'lines' belongs to: the nearest
\* line at or before i that is not a continuation line (0 if there is none)
OwnerOf(lines, i) ==
    LET starts == {j \in 1..i : ~IsContinuation(lines[j])}
    IN  IF starts = {} THEN 0 ELSE CHOOSE j \in starts : \A k \in starts : k <= j

\* line i is a folded continuation line of a removed header
FoldOfRemoved(lines, i) ==
    /\ IsContinuation(lines[i])
    /\ OwnerOf(lines, i) # 0
    /\ IsRemoved(lines[OwnerOf(lines, i)])

Occurrences(lines, line, Keep(_, _)) ==
    Cardinality({i \in 1..Len(lines) : lines[i] = line /\ Keep(lines, i)})

NotFoldOfRemoved(lines, i) == ~FoldOfRemoved(lines, i)
AnyLine(lines, i) == TRUE

(* C11, as claimed: the output of processMessage holds no Return-Path,
   Sender, Message-ID or DKIM-Signature header line, and no physical line
   that was a folded continuation line of one of those headers in the input
   survives in the output header block (a line of the same text appears in
   the output at most as often as the input has it outside such folds). *)
C11_AsClaimed ==
    (ret.returned /\ args.fn = "processMessage") =>
        LET in  == InputHeaderBlock
            out == OutputHeaderBlock(ret.value)
        IN  /\ \A i \in 1..Len(SplitLines(ret.value)) : ~IsRemoved(SplitLines(ret.value)[i])
            /\ \A i \in 1..Len(in) :
                   FoldOfRemoved(in, i) =>
                       Occurrences(out, in[i], AnyLine)
                           <= Occurrences(in, in[i], NotFoldOfRemoved)

\* the value of a header line: what follows the colon and one optional
\* space or tab
ValueOf(line) ==
    LET c == IndexOfFrom(line, ":", 1)
    IN  IF c < Len(line) /\ line[c + 1] \in {" ", "\t"}
        THEN Drop(line, c + 1) ELSE Drop(line, c)

\* a From value without its angle-bracket address (first '<' through last
\* '>'), trimmed
DisplayPart(v) ==
    LET lt == IndexOfFrom(v, "<", 1)
        gt == LastIndexOf(v, ">")
    IN  Trim(IF lt # 0 /\ gt > lt THEN Take(v, lt - 1) \o Drop(v, gt) ELSE v)

\* a From value with its first '<' replaced by 'at ' and its first '>' removed
Mangled(v) ==
    LET lt == IndexOfFrom(v, "<", 1)
        w  == IF lt = 0 THEN v ELSE Take(v, lt - 1) \o <<"a","t"," ">> \o Drop(v, lt)
        gt == IndexOfFrom(w, ">", 1)
    IN  IF gt = 0 THEN w ELSE Take(w, gt - 1) \o Drop(w, gt)

ExpectedFrom(config, originalRecipient, v) ==
    <<"F","r","o","m",":"," ">>
        \o (IF config.fromEmail # <<>> THEN DisplayPart(v) ELSE Mangled(v))
        \o <<" ","<">>
        \o (IF config.fromEmail # <<>> THEN config.fromEmail ELSE originalRecipient)
        \o <<">">>

ExpectedReplyTo(originalRecipient, v) ==
    <<"R","e","p","l","y","-","T","o",":"," ">>
        \o (IF v # <<>> THEN v ELSE originalRecipient)

OneFromNoReplyTo(lines) == Count(lines, IsFrom) = 1 /\ Count(lines, IsReplyTo) = 0

TheFrom(lines) == lines[CHOOSE i \in 1..Len(lines) : IsFrom(lines[i])]

\* For a From header on one physical line (its value is what that line
\* holds), the rewritten From and the added Reply-To are as described.
OneLineFromRewrite ==
    (ret.returned /\ args.fn = "processMessage" /\ OneFromNoReplyTo(InputHeaderBlock)) =>
        LET out == OutputHeaderBlock(ret.value)
            v   == ValueOf(TheFrom(InputHeaderBlock))
        IN  /\ Count(out, IsFrom) = 1
            /\ TheFrom(out) = ExpectedFrom(args.config, args.originalRecipient, v)
            /\ Count(out, IsReplyTo) = 1
            /\ \E i \in 1..Len(out) : out[i] = ExpectedReplyTo(args.originalRecipient, v)

\* the continuation lines that follow line i of 'lines'
RECURSIVE FoldsAfter(_, _)
FoldsAfter(lines, i) ==
    IF i < Len(lines) /\ IsContinuation(lines[i + 1])
    THEN lines[i + 1] \o FoldsAfter(lines, i + 1)
    ELSE <<>>

\* the complete value of the header that starts at line i: the value on the
\* line itself followed by its folded continuation lines (unfolding removes
\* the line breaks only)
UnfoldedValue(lines, i) == ValueOf(lines[i]) \o FoldsAfter(lines, i)

IndexOfFromHeader(lines) == CHOOSE i \in 1..Len(lines) : IsFrom(lines[i])

(* C12, as claimed: for a message with one From header and no Reply-To
   header, the output's From header is 'From: <display part of the original
   From value> <fromEmail>' when fromEmail is configured and otherwise
   'From: <original From value with '<' turned into 'at ' and '>' removed>
   <originalRecipient>', and the output has one Reply-To header whose value
   is the complete original From value, display name and address (the
   original recipient when that value is empty). *)
C12_AsClaimed ==
    (ret.returned /\ args.fn = "processMessage" /\ OneFromNoReplyTo(InputHeaderBlock)) =>
        LET in  == InputHeaderBlock
            out == OutputHeaderBlock(ret.value)
            v   == UnfoldedValue(in, IndexOfFromHeader(in))
        IN  /\ Count(out, IsFrom) = 1
            /\ <<"F","r","o","m",":"," ">> \o UnfoldedValue(out, IndexOfFromHeader(out))
                   = ExpectedFrom(args.config, args.originalRecipient, v)
            /\ Count(out, IsReplyTo) = 1
            /\ \E i \in 1..Len(out) :
                   /\ IsReplyTo(out[i])
                   /\ <<"R","e","p","l","y","-","T","o",":"," ">> \o UnfoldedValue(out, i)
                          = ExpectedReplyTo(args.originalRecipient, v)

\* what follows the first empty line of a text (nothing when no line is empty)
RECURSIVE AfterFirstBlankLine(_)
AfterFirstBlankLine(s) ==
    LET n == IndexOfFrom(s, "\n", 1)
    IN  IF n = 0 THEN <<>>
        ELSE IF n = 1 \/ (n = 2 /\ s[1] = "\r") THEN Drop(s, n)
        ELSE AfterFirstBlankLine(Drop(s, n))

\* the body of the raw input message
InputBody == AfterFirstBlankLine(args.messageBody)

\* how the forwarding trailer starts
TrailerStart ==
    <<"\r","\n","\r","\n","-","-","-","\r","\n",
      "F","o","r","w","a","r","d","e","d"," ","b","y"," ">>

(* C13, as claimed: the output is the rewritten header lines joined by CRLF,
   exactly one blank line, then the complete original body, every character
   of it unchanged (a final line without a trailing newline included), and
   after the body only the forwarding trailer. *)
C13_AsClaimed ==
    (ret.returned /\ args.fn = "processMessage") =>
        LET rest == AfterFirstBlankLine(ret.value)
        IN  /\ IsPrefix(Join(OutputHeaderBlock(ret.value), <<"\r","\n">>)
                            \o <<"\r","\n","\r","\n">>, ret.value)
            /\ IsPrefix(InputBody \o TrailerStart, rest)

\* the name of a header line, in lower case: what precedes its first colon
NameOf(line) ==
    LET c == IndexOfFrom(line, ":", 1)
    IN  IF c = 0 THEN <<>> ELSE ToLowerCase(Take(line, c - 1))

RemovedNames ==
    { <<"r","e","t","u","r","n","-","p","a","t","h">>,
      <<"s","e","n","d","e","r">>,
      <<"m","e","s","s","a","g","e","-","i","d">>,
      <<"d","k","i","m","-","s","i","g","n","a","t","u","r","e">> }

HasRemovedName(line) == NameOf(line) \in RemovedNames

\* processMessage applied to its own output, with the same configuration,
\* recipient and destinations
Reapplied ==
    processMessage(args.config, args.originalRecipient, ret.value, args.updatedRecipients)

(* C14, as claimed: the header block of processMessage's output holds no
   Return-Path, Sender, Message-ID or DKIM-Signature header, and applying
   processMessage to that output removes no header line: the second header
   block has as many lines as the first, and every line that is not a From,
   To or Subject header is in its place unchanged.  The lines of a header
   block are the ones that CR LF or LF ends, as split(/\r?\n/) makes them. *)
C14_AsClaimed ==
    (ret.returned /\ args.fn = "processMessage") =>
        LET out1 == OutputHeaderBlock(ret.value)
            out2 == OutputHeaderBlock(Reapplied)
        IN  /\ \A i \in 1..Len(out1) : ~HasRemovedName(out1[i])
            /\ Len(out2) = Len(out1)
            /\ \A i \in 1..Len(out1) :
                   IF IsFrom(out1[i]) \/ IsTo(out1[i]) \/ IsSubject(out1[i])
                   THEN NameOf(out2[i]) = NameOf(out1[i])
                   ELSE out2[i] = out1[i]

\* what an input header line that is kept turns into
Rewritten(config, originalRecipient, updatedRecipients, line) ==
    IF IsReplyTo(line) THEN line
    ELSE IF IsFrom(line) THEN ExpectedFrom(config, originalRecipient, ValueOf(line))
    ELSE IF IsTo(line) THEN <<"T","o",":"," ">> \o Join(updatedRecipients, <<","," ">>)
    ELSE IF IsSubject(line) /\ config.subjectPrefix # <<>>
    THEN SubjectLine(config, line)
    ELSE line

(* C15: the header lines that processMessage keeps or rewrites in place
   (From, To, Subject and untouched lines) appear in the output header block
   in the order they have in the input, and a Reply-To header that is added
   because the input had none is the last line of the output header block. *)
C15_OrderPreserved ==
    (ret.returned /\ args.fn = "processMessage") =>
        LET in    == InputHeaderBlock
            kept  == SelectSeq(in, LAMBDA l : ~HasRemovedName(l))
            out   == OutputHeaderBlock(ret.value)
            added == Count(in, IsReplyTo) = 0
            rest  == IF added THEN Take(out, Len(out) - 1) ELSE out
        IN  /\ added => (out # <<>> /\ IsReplyTo(Last(out)) /\ Count(out, IsReplyTo) = 1)
            /\ in # <<>> =>
                   /\ Len(rest) = Len(kept)
                   /\ \A i \in 1..Len(kept) :
                          rest[i] = Rewritten(args.config, args.originalRecipient,
                                              args.updatedRecipients, kept[i])

C15_Witness ==
    /\ ret.returned
    /\ args.fn = "processMessage"
    /\ args.config.fromEmail = AddrNY
    /\ InputHeaderBlock = << <<"T","o",":"," ","i","@","d">>,
                             <<"F","r","o","m",":"," ","A","l"," ","<","a","@","x",">">>,
                             <<"S","u","b","j","e","c","t",":"," ","H","i">> >>
    /\ OutputHeaderBlock(ret.value) =
          << <<"T","o",":"," ","o","@","g",","," ","p","@","g">>,
             <<"F","r","o","m",":"," ","A","l"," ","<","n","@","y",">">>,
             <<"S","u","b","j","e","c","t",":"," ","[","F","]"," ","H","i">>,
             <<"R","e","p","l","y","-","T","o",":"," ","A","l"," ","<","a","@","x",">">> >>

-----------------------------------------------------------------------------
(* The 'original' field of transformRecipients.                            *)

\* the positions of the recipients that some tier matches
MatchedPositions(config, list) ==
    {i \in 1..Len(list) : PresentTiers(config, list[i]) # {}}

\* the last matched recipient as written, the empty string when there is none
LastMatched(config, list) ==
    LET m == MatchedPositions(config, list)
    IN  IF m = {} THEN <<>> ELSE list[CHOOSE i \in m : \A j \in m : j <= i]

(* C16, as claimed: 'original' is the last address of the list, as written,
   that some tier matched, the empty string exactly when none matched, and
   'recipients' is the concatenation, in recipient order, of the destination
   lists of the matching tiers. *)
C16_AsClaimed ==
    (ret.returned /\ args.fn = "transformRecipients") =>
        /\ ret.value.original = LastMatched(args.config, args.recipients)
        /\ ret.value.original = <<>> <=> MatchedPositions(args.config, args.recipients) = {}
        /\ ret.value.recipients = AllDestinations(args.config, args.recipients)

(* C16, amended: 'original' is the last address of the list, as written,
   that some tier matched, the empty string exactly when none matched;
   'recipients' is the concatenation, in recipient order, of the destination
   lists of the matching tiers when that concatenation is not empty, and the
   original recipient list otherwise. *)
C16_Original ==
    (ret.returned /\ args.fn = "transformRecipients") =>
        /\ ret.value.original = LastMatched(args.config, args.recipients)
        /\ ret.value.original = <<>> <=> MatchedPositions(args.config, args.recipients) = {}
        /\ ret.value.recipients =
               IF AllDestinations(args.config, args.recipients) # <<>>
               THEN AllDestinations(args.config, args.recipients)
               ELSE args.recipients

C16_Witness ==
    /\ ret.returned
    /\ args.fn = "transformRecipients"
    /\ args.config.allowPlusSign
    /\ args.recipients = <<PlusAddr(<<"i">>, <<"t">>, <<"e">>), PlainAddr(<<"A">>, <<"e">>)>>
    /\ ret.value = [original |-> PlainAddr(<<"A">>, <<"e">>),
                    recipients |-> <<AddrOG, <<"q","@","g">>, <<"z","@","g">>>>]

-----------------------------------------------------------------------------
(* The envelope source of the send.                                        *)

\* the address in the last pair of angle brackets of a header line
AngleAddress(line) ==
    LET gt == LastIndexOf(line, ">")
        lt == IF gt = 0 THEN 0 ELSE LastIndexOf(Take(line, gt), "<")
    IN  IF lt = 0 THEN <<>> ELSE SubSeq(line, lt + 1, gt - 1)

\* the requests handed to the transport
SendRequests == {i \in 1..Len(calls) : calls[i].op = "ses.SendRawEmail"}

(* C17, as claimed: in every invocation that reaches the send stage, with
   fromEmail set or empty and with matched or fallback recipients, the Source
   handed to the transport is not empty and is the address in angle brackets
   of the From header of the message being sent. *)
C17_AsClaimed ==
    \A i \in SendRequests :
        LET p   == calls[i].params
            out == OutputHeaderBlock(p.RawMessage)
        IN  /\ p.Source # <<>>
            /\ \E k \in 1..Len(out) : IsFrom(out[k])
            /\ \A k \in 1..Len(out) : IsFrom(out[k]) => AngleAddress(out[k]) = p.Source

=============================================================================
